---- MODULE Spec2Model ----
(***************************************************************************)
(* A model of the portfolio backend: projects, the About and Contact      *)
(* pages, their image galleries kept in object storage, the reorder       *)
(* endpoint, the permission layer, the i18n merge, the language           *)
(* resolution of project titles and contents, storage failures, two      *)
(* gallery reconciliations of one parent running at the same time, i18n   *)
(* fields holding values that are not mappings, the size of the           *)
(* low-resolution variant, and reconciliations that name the images of    *)
(* another parent.                                                        *)
(*                                                                         *)
(* Python values are modelled as follows.  A dict is a function whose     *)
(* domain is its set of keys (so `k in d` is k \in DOMAIN d).  A JSON      *)
(* value of a JSONField is a pair <<type, value>>.  A stored file is its   *)
(* storage key <<directory, uuid>>; a ContentFile that has not been        *)
(* written to storage yet is <<"upload", bytes>>; an empty FieldFile is    *)
(* NoFile.  uuid4() returns a name that no stored object, no row and no    *)
(* delete call of the running request carries: the least such number.     *)
(***************************************************************************)
EXTENDS Integers, Sequences, FiniteSets, TLC

VARIABLES
    projects,       \* the Project table: id -> row
    nextProjectId,  \* the next primary key of the Project table
    images,         \* the ProjectImage table: id -> row
    nextImageId,    \* the next primary key of the ProjectImage table
    storage,        \* the S3 bucket: key -> bytes
    abouts,         \* the About table: id -> row
    nextAboutId,    \* the next primary key of the About table
    contacts,       \* the Contact table: id -> row
    nextContactId,  \* the next primary key of the Contact table
    saveLog,        \* the ProjectImage.save calls of the last request, in order
    s3Deletes,      \* keys of the delete calls the last request issued to storage
    req,            \* the last request, as the handler received it
    response,       \* the response to the last request: status and body
    failing,        \* the storage keys whose deletion the bucket refuses at present
    procs           \* the update requests in flight: process -> position and locals

vars == <<projects, nextProjectId, images, nextImageId, storage,
          abouts, nextAboutId, contacts, nextContactId,
          saveLog, s3Deletes, req, response, failing, procs>>

projectVars == <<projects, nextProjectId, images, nextImageId, storage>>
pageVars == <<abouts, nextAboutId, contacts, nextContactId>>
envVars == <<failing, procs>>

----------------------------------------------------------------------------
(* Bounds of the model *)

MaxProjects == 2
MaxImages == 2
MaxOps == 2
MaxObjects == 4
MaxGallery == 1

----------------------------------------------------------------------------
(* Python helpers *)

NoFile == <<>>
NoHash == ""
NoPk == 0

Get(d, k, default) == IF k \in DOMAIN d THEN d[k] ELSE default

Range(s) == {s[i] : i \in DOMAIN s}

AnyTrue(s) == \E i \in DOMAIN s : s[i]

Sha256(data) == <<"sha256", data>>

\* the blurred low-resolution WEBP of an image with the given bytes
LowVariant(data) == <<"webp", data>>

----------------------------------------------------------------------------
(* The database and storage state handed through a request *)

Db == [images |-> images, nextImageId |-> nextImageId, storage |-> storage,
       saveLog |-> <<>>, s3Deletes |-> <<>>, failing |-> failing, raised |-> FALSE]

\* the uuids of the names in use
UsedUuids(db) ==
    {k[2] : k \in (DOMAIN db.storage \cup Range(db.s3Deletes)
                   \cup {db.images[i].image : i \in DOMAIN db.images}
                   \cup {db.images[i].image_low : i \in DOMAIN db.images}) \ {NoFile}}

LeastUnused(used) ==
    CHOOSE n \in 1..(Cardinality(used) + 1) :
        /\ n \notin used
        /\ \A m \in 1..(n - 1) : m \in used

Uuid4(db) == LeastUnused(UsedUuids(db))

project_image_upload_to(db) == <<"projects", Uuid4(db)>>

project_image_low_upload_to(db) == <<"projects/low", Uuid4(db)>>

IsUpload(f) == f # NoFile /\ f[1] = "upload"

\* the bytes read from a FieldFile: the pending content, or the stored object
FileBytes(db, f) == IF IsUpload(f) THEN f[2] ELSE db.storage[f]

\* Storage.save: writes the bytes under the key
StorageSave(db, key, data) ==
    [db EXCEPT !.storage = (key :> data) @@ db.storage]

\* Storage.delete: removes the key; deleting a missing key is a no-op.  A
\* call the bucket refuses raises (botocore ClientError) and removes nothing.
StorageDelete(db, key) ==
    IF key \in db.failing
    THEN [db EXCEPT !.s3Deletes = Append(db.s3Deletes, key), !.raised = TRUE]
    ELSE [db EXCEPT !.storage = [k \in DOMAIN db.storage \ {key} |-> db.storage[k]],
                    !.s3Deletes = Append(db.s3Deletes, key)]

----------------------------------------------------------------------------
(* ProjectImage (projects/models.py); AboutImage (pages/models.py) is the  *)
(* same code over the about/ directory.                                    *)

\* Meta.ordering = ['order', 'id']
ImageBefore(rows, i, j) ==
    \/ rows[i].order < rows[j].order
    \/ rows[i].order = rows[j].order /\ i <= j

\* FirstImage by id alone
FirstImageById(rows, S) == CHOOSE i \in S : \A j \in S : i <= j

\* QuerySet.first() under Meta.ordering
FirstImage(rows, S) == CHOOSE i \in S : \A j \in S : ImageBefore(rows, i, j)

RECURSIVE OrderedImages(_, _)
OrderedImages(rows, S) ==
    IF S = {} THEN <<>>
    ELSE LET f == FirstImage(rows, S) IN <<f>> \o OrderedImages(rows, S \ {f})

\* ProjectImages without the filter on the parent
AllImages(rows, p) == DOMAIN rows

\* project.images: the ids of the rows of one project
ProjectImages(rows, p) == {i \in DOMAIN rows : rows[i].project = p}

\* RegenerateLow with "or" for the "and" of its last test
RegenerateLowOr(db, self) ==
    LET old_image_name == IF self.pk # NoPk /\ self.pk \in DOMAIN db.images
                          THEN db.images[self.pk].image ELSE NoFile
        new_image_name == self.image
    IN  IF self.pk = NoPk THEN TRUE
        ELSE IF old_image_name # new_image_name /\ new_image_name # NoFile THEN TRUE
        ELSE IF self.image_low = NoFile \/ new_image_name # NoFile THEN TRUE
        ELSE FALSE

\* RegenerateLow without its last test
RegenerateLowNoHeal(db, self) ==
    LET old_image_name == IF self.pk # NoPk /\ self.pk \in DOMAIN db.images
                          THEN db.images[self.pk].image ELSE NoFile
        new_image_name == self.image
    IN  IF self.pk = NoPk THEN TRUE
        ELSE IF old_image_name # new_image_name /\ new_image_name # NoFile THEN TRUE
        ELSE FALSE

\* the regeneration decision of ProjectImage.save
RegenerateLow(db, self) ==
    LET old_image_name == IF self.pk # NoPk /\ self.pk \in DOMAIN db.images
                          THEN db.images[self.pk].image ELSE NoFile
        new_image_name == self.image
    IN  IF self.pk = NoPk THEN TRUE
        ELSE IF old_image_name # new_image_name /\ new_image_name # NoFile THEN TRUE
        ELSE IF self.image_low = NoFile /\ new_image_name # NoFile THEN TRUE
        ELSE FALSE

\* the hash step of ProjectImage.save: only when the hash is still empty
SaveHash(db, self) ==
    IF self.image # NoFile /\ self.hash = NoHash
    THEN Sha256(FileBytes(db, self.image))
    ELSE self.hash

Row(self) == [project |-> self.project, image |-> self.image, image_low |-> self.image_low,
              caption |-> self.caption, order |-> self.order, is_cover |-> self.is_cover,
              hash |-> self.hash]

\* super().save(): assigns the primary key, writes a pending file to storage
\* under its upload_to name and writes the row.  Returns <<db, self>>.
BaseSave(db, self) ==
    LET pk  == IF self.pk = NoPk THEN db.nextImageId ELSE self.pk
        key == project_image_upload_to(db)
        db1 == IF IsUpload(self.image) THEN StorageSave(db, key, self.image[2]) ELSE db
        s1  == [self EXCEPT !.pk = pk,
                            !.image = IF IsUpload(self.image) THEN key ELSE self.image]
    IN  <<[db1 EXCEPT !.images = (pk :> Row(s1)) @@ db1.images,
                      !.nextImageId = IF self.pk = NoPk THEN db.nextImageId + 1
                                      ELSE db.nextImageId],
          s1>>

\* GenerateLow whose failure is not caught
GenerateLowRaises(db, self, low_ok) ==
    LET key == project_image_low_upload_to(db)
    IN  IF ~low_ok THEN [db EXCEPT !.raised = TRUE]
        ELSE LET db1 == StorageSave(db, key, LowVariant(FileBytes(db, self.image)))
             IN  [db1 EXCEPT !.images = [db1.images EXCEPT ![self.pk].image_low = key]]

\* _generate_low_variant followed by save(update_fields=["image_low"]);
\* low_ok is whether decoding, transforming, encoding and uploading succeed
GenerateLow(db, self, low_ok) ==
    LET key == project_image_low_upload_to(db)
    IN  IF ~low_ok THEN db
        ELSE LET db1 == StorageSave(db, key, LowVariant(FileBytes(db, self.image)))
             IN  [db1 EXCEPT !.images = [db1.images EXCEPT ![self.pk].image_low = key]]

\* ProjectImage.save
ImageSave(db, self, low_ok) ==
    LET s0 == [self EXCEPT !.hash = SaveHash(db, self)]
        regenerate_low == RegenerateLow(db, s0)
        saved == BaseSave(db, s0)
        db1 == [saved[1] EXCEPT !.saveLog = Append(db.saveLog,
                    [pk |-> saved[2].pk, created |-> self.pk = NoPk,
                     upload |-> IsUpload(self.image),
                     generate |-> regenerate_low /\ saved[2].image # NoFile,
                     failed |-> regenerate_low /\ saved[2].image # NoFile /\ ~low_ok])]
    IN  IF regenerate_low /\ saved[2].image # NoFile
        THEN GenerateLow(db1, saved[2], low_ok)
        ELSE db1

\* ImageDelete that forgets the low-resolution file
ImageDeleteKeepLow(db, pk) ==
    LET self == db.images[pk]
        db1  == [db EXCEPT !.images = [i \in DOMAIN db.images \ {pk} |-> db.images[i]]]
    IN  IF self.image # NoFile THEN StorageDelete(db1, self.image) ELSE db1

\* ProjectImage.delete: the row first, then the two files; an exception of
\* the first storage.delete leaves the method before the second
ImageDelete(db, pk) ==
    LET self == db.images[pk]
        db1  == [db EXCEPT !.images = [i \in DOMAIN db.images \ {pk} |-> db.images[i]]]
        db2  == IF self.image # NoFile THEN StorageDelete(db1, self.image) ELSE db1
    IN  IF db2.raised THEN db2
        ELSE IF self.image_low # NoFile THEN StorageDelete(db2, self.image_low) ELSE db2

\* for img in ...: img.delete(); an exception ends the loop
RECURSIVE DeleteAll(_, _)
DeleteAll(db, pks) ==
    IF pks = <<>> \/ db.raised THEN db
    ELSE DeleteAll(ImageDelete(db, Head(pks)), Tail(pks))

----------------------------------------------------------------------------
(* ProjectImageSerializer (projects/serializers.py) *)

\* a base64 data-URI is <<prefix, well-formed, bytes>>
DataUri(data) == <<"data:image", TRUE, data>>
BadBase64 == <<"data:image", FALSE, "">>
NotDataUri == <<"http", TRUE, "">>

\* _get_image_file_and_hash: <<ContentFile, hash>>, or <<NoFile, NoHash>>
GetImageFileAndHash(base64_string) ==
    IF base64_string[1] = "data:image" /\ base64_string[2]
    THEN <<<<"upload", base64_string[3]>>, Sha256(base64_string[3])>>
    ELSE <<NoFile, NoHash>>

\* UpdateHash that keeps the hash of the replaced asset
UpdateHashKeep(instance, hash_val) == instance.hash

\* the hash the serializer assigns when an update replaces the primary asset
UpdateHash(instance, hash_val) == hash_val

\* the instance instance.images.get(id=pk) loads, after the assignments of
\* ProjectImageSerializer.update
UpdatedInstance(db, pk, validated_data) ==
    LET loaded == db.images[pk]
        i0 == [pk |-> pk, project |-> loaded.project, image |-> loaded.image,
               image_low |-> loaded.image_low, hash |-> loaded.hash,
               caption |-> Get(validated_data, "caption", loaded.caption),
               order |-> Get(validated_data, "order", loaded.order),
               is_cover |-> Get(validated_data, "is_cover", loaded.is_cover)]
        fh == IF "image" \in DOMAIN validated_data
              THEN GetImageFileAndHash(validated_data["image"]) ELSE <<NoFile, NoHash>>
    IN  IF fh[1] # NoFile
        THEN [i0 EXCEPT !.image = fh[1], !.hash = UpdateHash(i0, fh[2])]
        ELSE i0

\* ProjectImageSerializer.update
ImageUpdate(db, pk, validated_data, low_ok) ==
    ImageSave(db, UpdatedInstance(db, pk, validated_data), low_ok)

\* the instance ProjectImage.objects.create(...) builds
NewInstance(p, img) ==
    LET fh == GetImageFileAndHash(img["image"])
    IN  [pk |-> NoPk, project |-> p, image |-> fh[1], image_low |-> NoFile,
         hash |-> fh[2], caption |-> Get(img, "caption", ""),
         order |-> Get(img, "order", 0),
         is_cover |-> Get(img, "is_cover", FALSE)]

\* ProjectImage.objects.create(...) of ProjectSerializer.create and update
ImageCreate(db, p, img, low_ok) == ImageSave(db, NewInstance(p, img), low_ok)

----------------------------------------------------------------------------
(* ProjectSerializer (projects/serializers.py); AboutSerializer is the     *)
(* same reconciliation over AboutImage.                                    *)

\* EnforceSingleCover that acts only on more than two covers
EnforceSingleCoverLate(db, p) ==
    LET cover_images == {i \in ProjectImages(db.images, p) : db.images[i].is_cover}
        first == FirstImage(db.images, cover_images)
    IN  IF Cardinality(cover_images) > 2
        THEN [db EXCEPT !.images = [i \in DOMAIN db.images |->
                    IF i \in cover_images \ {first}
                    THEN [db.images[i] EXCEPT !.is_cover = FALSE]
                    ELSE db.images[i]]]
        ELSE db

\* _enforce_single_cover
EnforceSingleCover(db, p) ==
    LET cover_images == {i \in ProjectImages(db.images, p) : db.images[i].is_cover}
        first == FirstImage(db.images, cover_images)
    IN  IF Cardinality(cover_images) > 1
        THEN [db EXCEPT !.images = [i \in DOMAIN db.images |->
                    IF i \in cover_images \ {first}
                    THEN [db.images[i] EXCEPT !.is_cover = FALSE]
                    ELSE db.images[i]]]
        ELSE db

\* ClearCovers that clears nothing
ClearCoversNone(db, p) == db

\* instance.images.filter(is_cover=True).update(is_cover=False)
ClearCovers(db, p) ==
    [db EXCEPT !.images = [i \in DOMAIN db.images |->
        IF db.images[i].project = p
        THEN [db.images[i] EXCEPT !.is_cover = FALSE]
        ELSE db.images[i]]]

\* one pass of the loop over images_data in ProjectSerializer.update
ApplyImageOp(db, p, img_data, low_ok) ==
    LET img_id == Get(img_data, "id", NoPk)
    IN  IF img_id # NoPk
        THEN IF img_id \in ProjectImages(db.images, p)
             THEN ImageUpdate(db, img_id, img_data, low_ok)
             ELSE db
        ELSE IF "image" \notin DOMAIN img_data THEN db
        ELSE IF GetImageFileAndHash(img_data["image"])[1] = NoFile THEN db
        ELSE ImageCreate(db, p, img_data, low_ok)

RECURSIVE ApplyImageOps(_, _, _, _)
ApplyImageOps(db, p, images_data, low_oks) ==
    IF images_data = <<>> \/ db.raised THEN db
    ELSE ApplyImageOps(ApplyImageOp(db, p, Head(images_data), Head(low_oks)),
                       p, Tail(images_data), Tail(low_oks))

\* one pass of the loop over images_data in ProjectSerializer.create
CreateImageOp(db, p, img, low_ok) ==
    IF "image" \notin DOMAIN img THEN db
    ELSE IF GetImageFileAndHash(img["image"])[1] = NoFile THEN db
    ELSE ImageCreate(db, p, img, low_ok)

RECURSIVE CreateImageOps(_, _, _, _)
CreateImageOps(db, p, images_data, low_oks) ==
    IF images_data = <<>> \/ db.raised THEN db
    ELSE CreateImageOps(CreateImageOp(db, p, Head(images_data), Head(low_oks)),
                        p, Tail(images_data), Tail(low_oks))

\* the gallery part of ProjectSerializer.create
CreateGallery(db, p, validated_data, low_oks) ==
    LET db1 == CreateImageOps(db, p, Get(validated_data, "images", <<>>), low_oks)
    IN  IF db1.raised THEN db1 ELSE EnforceSingleCover(db1, p)

\* the gallery part of ProjectSerializer.update: removals, the cover
\* clearing pass, the operations, the single-cover pass; an exception
\* leaves the method
Reconcile(db, p, validated_data, low_oks) ==
    LET images_data   == Get(validated_data, "images", <<>>)
        ids_to_remove == Get(validated_data, "images_to_remove", <<>>)
        qs  == {i \in ProjectImages(db.images, p) : i \in Range(ids_to_remove)}
        db1 == DeleteAll(db, OrderedImages(db.images, qs))
        any_incoming_cover ==
            AnyTrue([k \in DOMAIN images_data |-> Get(images_data[k], "is_cover", FALSE)])
        db2 == IF any_incoming_cover THEN ClearCovers(db1, p) ELSE db1
        db3 == ApplyImageOps(db2, p, images_data, low_oks)
    IN  IF db1.raised THEN db1
        ELSE IF db3.raised THEN db3
        ELSE EnforceSingleCover(db3, p)

----------------------------------------------------------------------------
(* JSON values of the JSONFields *)

Dict(items) == <<"dict", items>>
EmptyDict == Dict(<<>>)
IsDict(v) == v[1] = "dict"
Items(v) == v[2]

\* DictUpdate that drops what was there
DictReplace(current, incoming) == incoming

\* dict.update: the incoming entries over the current ones
DictUpdate(current, incoming) == Dict(Items(incoming) @@ Items(current))

\* a JSON list
List(elems) == <<"list", elems>>

\* the truth value Python gives a JSON value: empty containers, the empty
\* string and None are false
Truthy(v) ==
    IF IsDict(v) THEN DOMAIN Items(v) # {}
    ELSE IF v[1] = "str" THEN v[2] # ""
    ELSE IF v[1] = "list" THEN Len(v[2]) > 0
    ELSE FALSE

\* `getattr(instance, field, {}) or {}`
OrEmpty(v) == IF Truthy(v) THEN v ELSE EmptyDict

\* `current.update(...)` raises AttributeError: only a dict has the method
UpdateRaises(instance, validated_data, fields) ==
    \E field \in fields \cap DOMAIN validated_data :
        ~IsDict(OrEmpty(instance[field]))

\* ProjectSerializer._merge_dicts
MergeDicts(original, incoming) ==
    LET orig == IF IsDict(original) THEN original ELSE EmptyDict
    IN  IF ~IsDict(incoming) THEN orig
        ELSE DictUpdate(orig, incoming)

----------------------------------------------------------------------------
(* Project (projects/models.py), ProjectViewSet (projects/views.py) *)

None == <<"none">>

\* Project.objects.aggregate(Max('order')), plus one
NextOrder ==
    IF DOMAIN projects = {} THEN 0
    ELSE (CHOOSE m \in {projects[q].order : q \in DOMAIN projects} :
            \A q \in DOMAIN projects : projects[q].order <= m) + 1

\* the row ProjectSerializer.create inserts
NewProject(validated_data) ==
    [title |-> Get(validated_data, "title", ""),
     content |-> Get(validated_data, "content", None),
     content_source_lang |-> Get(validated_data, "content_source_lang", "en"),
     order |-> Get(validated_data, "order", 0),
     hidden |-> Get(validated_data, "hidden", FALSE),
     title_i18n |-> MergeDicts(EmptyDict, Get(validated_data, "title_i18n", EmptyDict)),
     content_i18n |-> MergeDicts(EmptyDict, Get(validated_data, "content_i18n", EmptyDict))]

\* the scalar and i18n part of ProjectSerializer.update
UpdatedProject(instance, validated_data) ==
    [title |-> Get(validated_data, "title", instance.title),
     content |-> Get(validated_data, "content", instance.content),
     content_source_lang |->
         Get(validated_data, "content_source_lang", instance.content_source_lang),
     order |-> instance.order,
     hidden |-> Get(validated_data, "hidden", instance.hidden),
     title_i18n |-> IF "title_i18n" \in DOMAIN validated_data
                    THEN MergeDicts(instance.title_i18n, validated_data["title_i18n"])
                    ELSE instance.title_i18n,
     content_i18n |-> IF "content_i18n" \in DOMAIN validated_data
                      THEN MergeDicts(instance.content_i18n, validated_data["content_i18n"])
                      ELSE instance.content_i18n]

\* the state a request leaves behind fits the model's bounds
WithinBounds(db) ==
    /\ db.nextImageId <= MaxImages + 1
    /\ Cardinality(DOMAIN db.storage) <= MaxObjects

Commit(db) ==
    /\ images' = db.images
    /\ nextImageId' = db.nextImageId
    /\ storage' = db.storage

\* what the request did, for the specifications that observe it
Observe(db) ==
    /\ saveLog' = db.saveLog
    /\ s3Deletes' = db.s3Deletes

\* POST /projects/: perform_create and ProjectSerializer.create
Created(validated_data, low_oks) ==
    CreateGallery(Db, nextProjectId, validated_data, low_oks)

CreateProject(validated_data, low_oks) ==
    LET pid == nextProjectId
        db  == Created(validated_data, low_oks)
    IN  /\ nextProjectId <= MaxProjects
        /\ WithinBounds(db)
        /\ projects' = (pid :> NewProject(("order" :> NextOrder) @@ validated_data))
                       @@ projects
        /\ nextProjectId' = nextProjectId + 1
        /\ Commit(db)
        /\ UNCHANGED pageVars

\* PUT/PATCH /projects/{id}/: ProjectSerializer.update
Updated(p, validated_data, low_oks) == Reconcile(Db, p, validated_data, low_oks)

UpdateProject(p, validated_data, low_oks) ==
    LET db == Updated(p, validated_data, low_oks)
    IN  /\ p \in DOMAIN projects
        /\ WithinBounds(db)
        /\ projects' = [projects EXCEPT ![p] = UpdatedProject(projects[p], validated_data)]
        /\ UNCHANGED nextProjectId
        /\ Commit(db)
        /\ UNCHANGED pageVars

\* DELETE /projects/{id}/: Project.delete
Destroyed(p) == DeleteAll(Db, OrderedImages(images, ProjectImages(images, p)))

\* super().delete(): the row, and on_delete=CASCADE for the rows still there
Cascade(db, p) ==
    [db EXCEPT !.images = [i \in DOMAIN db.images \ ProjectImages(db.images, p) |->
                              db.images[i]]]

\* an exception of the loop over the images leaves Project.delete before
\* super().delete()
DestroyProject(p) ==
    LET db == Destroyed(p)
    IN  /\ p \in DOMAIN projects
        /\ IF db.raised
           THEN UNCHANGED projects /\ Commit(db)
           ELSE /\ projects' = [q \in DOMAIN projects \ {p} |-> projects[q]]
                /\ Commit(Cascade(db, p))
        /\ UNCHANGED nextProjectId
        /\ UNCHANGED pageVars

----------------------------------------------------------------------------
(* Requests *)

\* a dict with the key k for each value of V, and the dict without the key
Opt(k, V) == {<<>>} \cup {(k :> v) : v \in V}

Merged(A, B) == {a @@ b : a \in A, b \in B}

RECURSIVE SeqsUpTo(_, _)
SeqsUpTo(S, n) ==
    IF n = 0 THEN {<<>>}
    ELSE LET shorter == SeqsUpTo(S, n - 1)
         IN  shorter \cup {Append(s, x) : s \in {t \in shorter : Len(t) = n - 1}, x \in S}

RECURSIVE SetToSeq(_)
SetToSeq(S) ==
    IF S = {} THEN <<>>
    ELSE LET x == CHOOSE y \in S : \A z \in S : y <= z IN <<x>> \o SetToSeq(S \ {x})

ImageIds == 1..MaxImages

RemovalLists == {SetToSeq(S) : S \in SUBSET ImageIds}

AllOk(images_data) == [k \in DOMAIN images_data |-> TRUE]

\* gallery operations of the cover scenarios: updates of the cover flag and
\* the order of an existing image, and inserts of a new image
CoverOps ==
    Merged(Merged({("id" :> i) : i \in ImageIds} \cup {("image" :> DataUri("a"))},
                  Opt("is_cover", BOOLEAN)),
           Opt("order", {1}))

CoverRequests ==
    {("images" :> ops) @@ ("images_to_remove" :> rm) :
        ops \in SeqsUpTo(CoverOps, MaxOps), rm \in RemovalLists}

\* a request as the view receives it
Request(view, action, authenticated, id, data) ==
    [view |-> view, action |-> action, authenticated |-> authenticated,
     id |-> id, data |-> data]

Untraced == UNCHANGED <<saveLog, s3Deletes, req, response, envVars>>

Init ==
    /\ projects = <<>>
    /\ nextProjectId = 1
    /\ images = <<>>
    /\ nextImageId = 1
    /\ storage = <<>>
    /\ abouts = <<>>
    /\ nextAboutId = 1
    /\ contacts = <<>>
    /\ nextContactId = 1
    /\ saveLog = <<>>
    /\ s3Deletes = <<>>
    /\ req = Request("", "", FALSE, NoPk, <<>>)
    /\ response = [status |-> 0, data |-> <<>>]
    /\ failing = {}
    /\ procs = <<>>

Next ==
    \/ \E vd \in CoverRequests :
          CreateProject(("title" :> "t") @@ vd, AllOk(vd["images"])) /\ Untraced
    \/ \E p \in DOMAIN projects, vd \in CoverRequests :
          UpdateProject(p, vd, AllOk(vd["images"])) /\ Untraced
    \/ \E p \in DOMAIN projects : DestroyProject(p) /\ Untraced

Spec == Init /\ [][Next]_vars

----------------------------------------------------------------------------
(* The life of one gallery image: requests that carry a single gallery     *)
(* operation, with the outcome of the low variant pipeline left open.      *)

Payloads == {"a", "b"}

LowOks(images_data) == [DOMAIN images_data -> BOOLEAN]

\* the changes of caption, order and is_cover an operation may carry
Metadata ==
    {<<>>, ("caption" :> "x"), ("order" :> 1) @@ ("is_cover" :> TRUE)}

LifecycleOps ==
    Merged(Merged(Opt("id", ImageIds), Opt("image", {DataUri(d) : d \in Payloads})),
           Metadata)

LifecycleRequests == {("images" :> <<op>>) : op \in LifecycleOps}

\* one project is followed, and its gallery holds at most MaxGallery images
OneGallery ==
    /\ DOMAIN projects' \subseteq {1}
    /\ Cardinality(DOMAIN images') <= MaxGallery

NextImage ==
    \/ \E vd \in LifecycleRequests, oks \in LowOks(<<1>>) :
          /\ CreateProject(("title" :> "t") @@ vd, oks)
          /\ Observe(Created(vd, oks))
          /\ OneGallery
          /\ UNCHANGED <<req, response, envVars>>
    \/ \E p \in DOMAIN projects, vd \in LifecycleRequests, oks \in LowOks(<<1>>) :
          /\ UpdateProject(p, vd, oks)
          /\ Observe(Updated(p, vd, oks))
          /\ OneGallery
          /\ UNCHANGED <<req, response, envVars>>
    \/ \E p \in DOMAIN projects :
          /\ DestroyProject(p)
          /\ Observe(Destroyed(p))
          /\ UNCHANGED <<req, response, envVars>>

SpecImage == Init /\ [][NextImage]_vars

----------------------------------------------------------------------------
(* Deletion: projects created with a gallery, removals and project         *)
(* deletion, with the delete calls issued to storage observed.             *)

DeleteInserts == {("image" :> DataUri("a"))}

NextDelete ==
    \/ \E ops \in SeqsUpTo(DeleteInserts, MaxOps) : \E oks \in LowOks(ops) :
          /\ CreateProject(("title" :> "t") @@ ("images" :> ops), oks)
          /\ Observe(Created(("images" :> ops), oks))
          /\ UNCHANGED <<req, response, envVars>>
    \/ \E p \in DOMAIN projects, rm \in RemovalLists :
          /\ UpdateProject(p, ("images_to_remove" :> rm), <<>>)
          /\ Observe(Updated(p, ("images_to_remove" :> rm), <<>>))
          /\ UNCHANGED <<req, response, envVars>>
    \/ \E p \in DOMAIN projects :
          /\ DestroyProject(p)
          /\ Observe(Destroyed(p))
          /\ UNCHANGED <<req, response, envVars>>

SpecDelete == Init /\ [][NextDelete]_vars

----------------------------------------------------------------------------
(* The HTTP surface: requests, permissions, the handlers of the views *)

Respond(status, data) == response' = [status |-> status, data |-> data]

\* GetPermissions that lets everyone in
GetPermissionsOpen(action) == "AllowAny"

\* get_permissions of ProjectViewSet, AboutViewSet and ContactViewSet
GetPermissions(action) ==
    IF action \in {"list", "retrieve"} THEN "AllowAny" ELSE "IsAuthenticated"

\* REST_FRAMEWORK["DEFAULT_PERMISSION_CLASSES"], for the views that name none
DefaultPermission == "IsAuthenticated"

ViewPermission(view, action) ==
    IF view = "upload_image" THEN DefaultPermission ELSE GetPermissions(action)

HasPermission(permission, authenticated) ==
    permission = "AllowAny" \/ authenticated

Permitted(view, action, authenticated) ==
    HasPermission(ViewPermission(view, action), authenticated)

\* a request the permission check lets through reaches its handler
Serve(view, action, authenticated, id, data) ==
    /\ Permitted(view, action, authenticated)
    /\ req' = Request(view, action, authenticated, id, data)
    /\ UNCHANGED envVars

\* APIView.initial: a request without permission never reaches its handler
Refuse(view, action, id) ==
    /\ ~Permitted(view, action, FALSE)
    /\ req' = Request(view, action, FALSE, id, <<>>)
    /\ Respond(401, "Authentication credentials were not provided.")
    /\ UNCHANGED <<projectVars, pageVars, saveLog, s3Deletes, envVars>>

\* get_object() of a detail route finds no row
NotFound(table) ==
    /\ req'.id \notin DOMAIN table
    /\ Respond(404, "Not found.")
    /\ UNCHANGED <<projectVars, pageVars, saveLog, s3Deletes>>

\* GET of a list route: the ids in Meta.ordering
ListRows(table, ordered) ==
    /\ Respond(200, IF ordered THEN OrderedImages(table, DOMAIN table)
                    ELSE SetToSeq(DOMAIN table))
    /\ UNCHANGED <<projectVars, pageVars, saveLog, s3Deletes>>

----------------------------------------------------------------------------
(* ProjectViewSet.reorder (projects/views.py) *)

\* request.data.get('order') is <<"list", ids>> for a JSON list
IsList(v) == v[1] = "list"

\* the index enumerate() gives to the last occurrence of pid
LastIndex(order_list, pid) ==
    (CHOOSE k \in DOMAIN order_list :
        /\ order_list[k] = pid
        /\ \A j \in DOMAIN order_list : order_list[j] = pid => j <= k) - 1

Reorder(order) ==
    LET order_list == order[2]
        found == {q \in DOMAIN projects : q \in Range(order_list)}
    IN  /\ IF ~IsList(order)
           THEN /\ Respond(400, "Field 'order' must be a list of IDs")
                /\ UNCHANGED projects
           ELSE IF Range(order_list) # found
           THEN /\ Respond(400, "The list of IDs does not match with existing projects")
                /\ UNCHANGED projects
           ELSE /\ projects' = [q \in DOMAIN projects |->
                                   IF q \in found
                                   THEN [projects[q] EXCEPT
                                            !.order = LastIndex(order_list, q)]
                                   ELSE projects[q]]
                /\ Respond(200, "Order updated.")
        /\ UNCHANGED <<nextProjectId, images, nextImageId, storage>>
        /\ UNCHANGED pageVars

----------------------------------------------------------------------------
(* ProjectImageUploadView and handle_image_upload (services/aws_s3.py) *)

UploadImage(project_id, file_obj, existing_images, upload_ok) ==
    LET new_key == <<"projects", project_id, file_obj.name>>
        kept    == [k \in DOMAIN storage \ Range(existing_images) |-> storage[k]]
    IN  /\ IF file_obj = NoFile
           THEN Respond(400, "No se ha enviado ninguna imagen.") /\ UNCHANGED storage
           ELSE IF ~upload_ok
           THEN Respond(500, "ClientError") /\ storage' = kept
           ELSE Respond(200, new_key) /\ storage' = (new_key :> file_obj.data) @@ kept
        /\ Cardinality(DOMAIN storage') <= MaxObjects
        /\ UNCHANGED <<projects, nextProjectId, images, nextImageId>>
        /\ UNCHANGED pageVars

----------------------------------------------------------------------------
(* Language resolution of ProjectSerializer *)

NoParam == "<absent>"
NoLang == "<None>"
NoText == "<None>"

\* _resolve_lang: the lang query parameter, None when absent or empty
ResolveLang(lang_param) ==
    IF lang_param = NoParam \/ lang_param = "" THEN NoLang ELSE lang_param

\* TitleResolved without the test of the source language
TitleResolvedNoSource(obj, lang, first) ==
    LET i18n == obj.title_i18n
    IN  IF lang # NoLang /\ IsDict(i18n) /\ Get(Items(i18n), lang, "") # ""
        THEN [text |-> Items(i18n)[lang], lang |-> lang]
        ELSE IF obj.title # ""
        THEN [text |-> obj.title, lang |-> obj.content_source_lang]
        ELSE IF IsDict(i18n) /\ DOMAIN Items(i18n) # {}
        THEN [text |-> Items(i18n)[first], lang |-> first]
        ELSE [text |-> NoText, lang |-> NoLang]

\* get_title_resolved; first is the key the iteration of title_i18n yields first
TitleResolved(obj, lang, first) ==
    LET i18n == obj.title_i18n
    IN  IF lang # NoLang /\ IsDict(i18n) /\ Get(Items(i18n), lang, "") # ""
        THEN [text |-> Items(i18n)[lang], lang |-> lang]
        ELSE IF lang = obj.content_source_lang
        THEN [text |-> obj.title, lang |-> obj.content_source_lang]
        ELSE IF obj.title # ""
        THEN [text |-> obj.title, lang |-> obj.content_source_lang]
        ELSE IF IsDict(i18n) /\ DOMAIN Items(i18n) # {}
        THEN [text |-> Items(i18n)[first], lang |-> first]
        ELSE [text |-> NoText, lang |-> NoLang]

\* the keys a dict may yield first: its iteration order is the store's
FirstKeys(v) ==
    IF IsDict(v) /\ DOMAIN Items(v) # {} THEN DOMAIN Items(v) ELSE {NoLang}

\* a text value of the nullable TextField content
Str(s) == <<"str", s>>

\* d.get('md') of an entry that is a dict; "" stands for every falsy outcome
Md(d) == IF IsDict(d) THEN Get(Items(d), "md", "") ELSE ""

\* the scalar content as the response carries it
ContentText(content) == IF content = None THEN NoText ELSE content[2]

\* get_content_resolved; first is the key the iteration of content_i18n
\* yields first
ContentResolved(obj, lang, first) ==
    LET i18n == obj.content_i18n
        d == IF IsDict(i18n) THEN Get(Items(i18n), lang, None) ELSE None
    IN  IF lang # NoLang /\ IsDict(i18n) /\ Md(d) # ""
        THEN [md |-> Md(d), lang |-> lang]
        ELSE IF lang = obj.content_source_lang /\ obj.content # None
        THEN [md |-> ContentText(obj.content), lang |-> obj.content_source_lang]
        ELSE IF obj.content # None
        THEN [md |-> ContentText(obj.content), lang |-> obj.content_source_lang]
        ELSE IF IsDict(i18n) /\ DOMAIN Items(i18n) # {} /\ Md(Items(i18n)[first]) # ""
        THEN [md |-> Md(Items(i18n)[first]), lang |-> first]
        ELSE [md |-> NoText, lang |-> NoLang]

\* GET /projects/{id}/?lang=
RetrieveProject(p, lang_param) ==
    /\ p \in DOMAIN projects
    /\ \E first \in FirstKeys(projects[p].title_i18n),
          content_first \in FirstKeys(projects[p].content_i18n) :
          Respond(200, [title_resolved |->
                           TitleResolved(projects[p], ResolveLang(lang_param), first),
                        content_resolved |->
                           ContentResolved(projects[p], ResolveLang(lang_param),
                                           content_first)])
    /\ UNCHANGED <<projectVars, pageVars>>

----------------------------------------------------------------------------
(* About and Contact (pages/models.py, pages/serializers.py) *)

MaxPages == 1
MaxRows == 1

\* the row AboutSerializer.create inserts
NewAbout(validated_data) ==
    [title_i18n |-> Get(validated_data, "title_i18n", EmptyDict),
     content_i18n |-> Get(validated_data, "content_i18n", EmptyDict)]

CreateAbout(validated_data) ==
    /\ nextAboutId <= MaxPages
    /\ abouts' = (nextAboutId :> NewAbout(validated_data)) @@ abouts
    /\ nextAboutId' = nextAboutId + 1
    /\ UNCHANGED <<contacts, nextContactId>>
    /\ UNCHANGED projectVars

\* the i18n part of AboutSerializer.update
UpdatedAbout(instance, validated_data) ==
    [field \in DOMAIN instance |->
        IF field \in {"title_i18n", "content_i18n"} /\ field \in DOMAIN validated_data
        THEN DictUpdate(OrEmpty(instance[field]), validated_data[field])
        ELSE instance[field]]

\* the i18n loop of AboutSerializer.update raises before instance.save()
AboutRaises(a, validated_data) ==
    UpdateRaises(abouts[a], validated_data, {"title_i18n", "content_i18n"})

UpdateAbout(a, validated_data) ==
    /\ a \in DOMAIN abouts
    /\ abouts' = IF AboutRaises(a, validated_data) THEN abouts
                 ELSE [abouts EXCEPT ![a] = UpdatedAbout(abouts[a], validated_data)]
    /\ UNCHANGED <<nextAboutId, contacts, nextContactId>>
    /\ UNCHANGED projectVars

\* About.delete
DestroyAbout(a) ==
    /\ a \in DOMAIN abouts
    /\ abouts' = [b \in DOMAIN abouts \ {a} |-> abouts[b]]
    /\ UNCHANGED <<nextAboutId, contacts, nextContactId>>
    /\ UNCHANGED projectVars

\* the row ModelSerializer.create inserts for ContactSerializer
NewContact(validated_data) ==
    [title_i18n |-> Get(validated_data, "title_i18n", EmptyDict),
     description_i18n |-> Get(validated_data, "description_i18n", EmptyDict)]

CreateContact(validated_data) ==
    /\ nextContactId <= MaxPages
    /\ contacts' = (nextContactId :> NewContact(validated_data)) @@ contacts
    /\ nextContactId' = nextContactId + 1
    /\ UNCHANGED <<abouts, nextAboutId>>
    /\ UNCHANGED projectVars

\* ContactSerializer.update
UpdatedContact(instance, validated_data) ==
    [field \in DOMAIN instance |->
        IF field \in {"title_i18n", "description_i18n"} /\ field \in DOMAIN validated_data
        THEN DictUpdate(OrEmpty(instance[field]), validated_data[field])
        ELSE instance[field]]

\* the loop of ContactSerializer.update raises before instance.save()
ContactRaises(c, validated_data) ==
    UpdateRaises(contacts[c], validated_data, {"title_i18n", "description_i18n"})

UpdateContact(c, validated_data) ==
    /\ c \in DOMAIN contacts
    /\ contacts' = IF ContactRaises(c, validated_data) THEN contacts
                   ELSE [contacts EXCEPT ![c] = UpdatedContact(contacts[c], validated_data)]
    /\ UNCHANGED <<nextContactId, abouts, nextAboutId>>
    /\ UNCHANGED projectVars

DestroyContact(c) ==
    /\ c \in DOMAIN contacts
    /\ contacts' = [d \in DOMAIN contacts \ {c} |-> contacts[d]]
    /\ UNCHANGED <<nextContactId, abouts, nextAboutId>>
    /\ UNCHANGED projectVars

\* the rows of all tables together stay within MaxRows
FewRows ==
    Cardinality(DOMAIN projects') + Cardinality(DOMAIN abouts')
        + Cardinality(DOMAIN contacts') <= MaxRows

----------------------------------------------------------------------------
(* Reordering: projects without gallery are created and deleted, and the   *)
(* reorder endpoint is given lists of ids and values that are no list.     *)

MaxOrderLen == 3

OrderInputs ==
    {<<"list", ids>> : ids \in SeqsUpTo(1..(MaxProjects + 1), MaxOrderLen)}
    \cup {<<"str", "3,1">>}

NextReorder ==
    \/ /\ Serve("projects", "create", TRUE, NoPk, ("title" :> "t"))
       /\ CreateProject(("title" :> "t"), <<>>)
       /\ Respond(201, nextProjectId)
       /\ UNCHANGED <<saveLog, s3Deletes>>
    \/ \E p \in DOMAIN projects :
          /\ Serve("projects", "destroy", TRUE, p, <<>>)
          /\ DestroyProject(p)
          /\ Respond(204, <<>>)
          /\ UNCHANGED <<saveLog, s3Deletes>>
    \/ \E order \in OrderInputs :
          /\ Serve("projects", "reorder", TRUE, NoPk, order)
          /\ Reorder(order)
          /\ UNCHANGED <<saveLog, s3Deletes>>

SpecReorder == Init /\ [][NextReorder]_vars

----------------------------------------------------------------------------
(* Permissions: every route of the surface, called with and without        *)
(* credentials.                                                            *)

ViewSetActions == {"list", "retrieve", "create", "update", "partial_update", "destroy"}

Routes ==
    {<<"projects", a>> : a \in ViewSetActions \cup {"reorder"}}
    \cup {<<"about", a>> : a \in ViewSetActions}
    \cup {<<"contact", a>> : a \in ViewSetActions}
    \cup {<<"upload_image", "post">>}

RowIds == 1..MaxPages

UploadFiles == {NoFile, [name |-> "f.png", data |-> "a"]}

ProjectRoutes(authenticated) ==
    \/ /\ Serve("projects", "list", authenticated, NoPk, <<>>)
       /\ ListRows(projects, TRUE)
    \/ \E p \in RowIds, lang_param \in {NoParam, "en"} :
          /\ Serve("projects", "retrieve", authenticated, p, lang_param)
          /\ \/ NotFound(projects)
             \/ RetrieveProject(p, lang_param) /\ UNCHANGED <<saveLog, s3Deletes>>
    \/ /\ Serve("projects", "create", authenticated, NoPk, ("title" :> "t"))
       /\ CreateProject(("title" :> "t"), <<>>)
       /\ FewRows
       /\ Respond(201, nextProjectId)
       /\ UNCHANGED <<saveLog, s3Deletes>>
    \/ \E p \in RowIds, action \in {"update", "partial_update"} :
          /\ Serve("projects", action, authenticated, p, ("title" :> "u"))
          /\ \/ NotFound(projects)
             \/ /\ UpdateProject(p, ("title" :> "u"), <<>>)
                /\ Respond(200, p)
                /\ UNCHANGED <<saveLog, s3Deletes>>
    \/ \E p \in RowIds :
          /\ Serve("projects", "destroy", authenticated, p, <<>>)
          /\ \/ NotFound(projects)
             \/ /\ DestroyProject(p)
                /\ Respond(204, <<>>)
                /\ UNCHANGED <<saveLog, s3Deletes>>
    \/ \E order \in {<<"list", <<1>>>>, <<"list", <<2, 1>>>>} :
          /\ Serve("projects", "reorder", authenticated, NoPk, order)
          /\ Reorder(order)
          /\ UNCHANGED <<saveLog, s3Deletes>>
    \/ \E file_obj \in UploadFiles, upload_ok \in BOOLEAN :
          /\ Serve("upload_image", "post", authenticated, 1, file_obj)
          /\ UploadImage(1, file_obj, <<>>, upload_ok)
          /\ UNCHANGED <<saveLog, s3Deletes>>

AboutRoutes(authenticated) ==
    \/ /\ Serve("about", "list", authenticated, NoPk, <<>>)
       /\ ListRows(abouts, FALSE)
    \/ \E a \in RowIds :
          /\ Serve("about", "retrieve", authenticated, a, <<>>)
          /\ \/ NotFound(abouts)
             \/ /\ a \in DOMAIN abouts
                /\ Respond(200, abouts[a])
                /\ UNCHANGED <<projectVars, pageVars, saveLog, s3Deletes>>
    \/ /\ Serve("about", "create", authenticated, NoPk, <<>>)
       /\ CreateAbout(<<>>)
       /\ FewRows
       /\ Respond(201, nextAboutId)
       /\ UNCHANGED <<saveLog, s3Deletes>>
    \/ \E a \in RowIds, action \in {"update", "partial_update"} :
          LET data == ("title_i18n" :> Dict("en" :> "a"))
          IN  /\ Serve("about", action, authenticated, a, data)
              /\ \/ NotFound(abouts)
                 \/ /\ UpdateAbout(a, data)
                    /\ Respond(200, a)
                    /\ UNCHANGED <<saveLog, s3Deletes>>
    \/ \E a \in RowIds :
          /\ Serve("about", "destroy", authenticated, a, <<>>)
          /\ \/ NotFound(abouts)
             \/ /\ DestroyAbout(a)
                /\ Respond(204, <<>>)
                /\ UNCHANGED <<saveLog, s3Deletes>>

ContactRoutes(authenticated) ==
    \/ /\ Serve("contact", "list", authenticated, NoPk, <<>>)
       /\ ListRows(contacts, FALSE)
    \/ \E c \in RowIds :
          /\ Serve("contact", "retrieve", authenticated, c, <<>>)
          /\ \/ NotFound(contacts)
             \/ /\ c \in DOMAIN contacts
                /\ Respond(200, contacts[c])
                /\ UNCHANGED <<projectVars, pageVars, saveLog, s3Deletes>>
    \/ /\ Serve("contact", "create", authenticated, NoPk, <<>>)
       /\ CreateContact(<<>>)
       /\ FewRows
       /\ Respond(201, nextContactId)
       /\ UNCHANGED <<saveLog, s3Deletes>>
    \/ \E c \in RowIds, action \in {"update", "partial_update"} :
          LET data == ("title_i18n" :> Dict("en" :> "a"))
          IN  /\ Serve("contact", action, authenticated, c, data)
              /\ \/ NotFound(contacts)
                 \/ /\ UpdateContact(c, data)
                    /\ Respond(200, c)
                    /\ UNCHANGED <<saveLog, s3Deletes>>
    \/ \E c \in RowIds :
          /\ Serve("contact", "destroy", authenticated, c, <<>>)
          /\ \/ NotFound(contacts)
             \/ /\ DestroyContact(c)
                /\ Respond(204, <<>>)
                /\ UNCHANGED <<saveLog, s3Deletes>>

NextAuth ==
    \/ \E authenticated \in BOOLEAN : ProjectRoutes(authenticated)
    \/ \E authenticated \in BOOLEAN : AboutRoutes(authenticated)
    \/ \E authenticated \in BOOLEAN : ContactRoutes(authenticated)
    \/ \E route \in Routes, id \in {NoPk} \cup RowIds : Refuse(route[1], route[2], id)

SpecAuth == Init /\ [][NextAuth]_vars

----------------------------------------------------------------------------
(* The i18n merge: creates and updates of the three resources that carry   *)
(* language mappings.                                                      *)

Langs == {"en", "es"}
Texts == {"a", "b"}

\* the mappings from some of the keys to the values
Mappings(keys, values) ==
    {Dict(m) : m \in UNION {[K -> values] : K \in SUBSET keys}}

I18nData(second) ==
    Merged(Opt("title_i18n", Mappings(Langs, Texts)),
           Opt(second, {Dict("en" :> "a")}))

NextI18n ==
    \/ \E data \in I18nData("content_i18n") :
          /\ Serve("projects", "create", TRUE, NoPk, data)
          /\ CreateProject(("title" :> "t") @@ data, <<>>)
          /\ Respond(201, nextProjectId)
          /\ FewRows
          /\ UNCHANGED <<saveLog, s3Deletes>>
    \/ \E p \in DOMAIN projects, data \in I18nData("content_i18n") :
          /\ Serve("projects", "update", TRUE, p, data)
          /\ UpdateProject(p, data, <<>>)
          /\ Respond(200, p)
          /\ UNCHANGED <<saveLog, s3Deletes>>
    \/ \E p \in DOMAIN projects :
          /\ Serve("projects", "destroy", TRUE, p, <<>>)
          /\ DestroyProject(p)
          /\ Respond(204, <<>>)
          /\ UNCHANGED <<saveLog, s3Deletes>>
    \/ \E data \in I18nData("content_i18n") :
          /\ Serve("about", "create", TRUE, NoPk, data)
          /\ CreateAbout(data)
          /\ Respond(201, nextAboutId)
          /\ FewRows
          /\ UNCHANGED <<saveLog, s3Deletes>>
    \/ \E a \in DOMAIN abouts, data \in I18nData("content_i18n") :
          /\ Serve("about", "update", TRUE, a, data)
          /\ UpdateAbout(a, data)
          /\ Respond(200, a)
          /\ UNCHANGED <<saveLog, s3Deletes>>
    \/ \E a \in DOMAIN abouts :
          /\ Serve("about", "destroy", TRUE, a, <<>>)
          /\ DestroyAbout(a)
          /\ Respond(204, <<>>)
          /\ UNCHANGED <<saveLog, s3Deletes>>
    \/ \E data \in I18nData("description_i18n") :
          /\ Serve("contact", "create", TRUE, NoPk, data)
          /\ CreateContact(data)
          /\ Respond(201, nextContactId)
          /\ FewRows
          /\ UNCHANGED <<saveLog, s3Deletes>>
    \/ \E c \in DOMAIN contacts, data \in I18nData("description_i18n") :
          /\ Serve("contact", "update", TRUE, c, data)
          /\ UpdateContact(c, data)
          /\ Respond(200, c)
          /\ UNCHANGED <<saveLog, s3Deletes>>
    \/ \E c \in DOMAIN contacts :
          /\ Serve("contact", "destroy", TRUE, c, <<>>)
          /\ DestroyContact(c)
          /\ Respond(204, <<>>)
          /\ UNCHANGED <<saveLog, s3Deletes>>

SpecI18n == Init /\ [][NextI18n]_vars

----------------------------------------------------------------------------
(* Title resolution: one project row drawn from the rows the serializer    *)
(* can be given, retrieved in every language.                              *)

ResolveTexts == {"", "Hi"}

\* the entries of content_i18n: {"md": text}, and a value that is no dict
MdEntries == {Dict("md" :> t) : t \in ResolveTexts} \cup {Str("Hi")}

\* the values of the scalar content: null, blank, a text
Contents == {None, Str(""), Str("Hola")}

ResolveProjects ==
    {NewProject(("title" :> title) @@ ("content_source_lang" :> source)
                @@ ("title_i18n" :> i18n)) :
        title \in {"", "Hola"}, source \in Langs, i18n \in Mappings(Langs, ResolveTexts)}
    \cup
    {NewProject(("title" :> "Hola") @@ ("content" :> content)
                @@ ("content_source_lang" :> source) @@ ("content_i18n" :> i18n)) :
        content \in Contents, source \in Langs, i18n \in Mappings(Langs, MdEntries)}

LangParams == {NoParam, "", "en", "es", "fr"}

InitResolve ==
    /\ projects \in [{1} -> ResolveProjects]
    /\ nextProjectId = 2
    /\ images = <<>>
    /\ nextImageId = 1
    /\ storage = <<>>
    /\ abouts = <<>>
    /\ nextAboutId = 1
    /\ contacts = <<>>
    /\ nextContactId = 1
    /\ saveLog = <<>>
    /\ s3Deletes = <<>>
    /\ req = Request("", "", FALSE, NoPk, <<>>)
    /\ response = [status |-> 0, data |-> <<>>]
    /\ failing = {}
    /\ procs = <<>>

NextResolve ==
    \E p \in DOMAIN projects, lang_param \in LangParams :
        /\ Serve("projects", "retrieve", FALSE, p, lang_param)
        /\ RetrieveProject(p, lang_param)
        /\ UNCHANGED <<saveLog, s3Deletes>>

SpecResolve == InitResolve /\ [][NextResolve]_vars

----------------------------------------------------------------------------
(* Gallery requests served over HTTP, with the request, the response, the  *)
(* saves and the storage deletes observed.  An exception that reaches the  *)
(* view is answered 500 by Django.                                         *)

PostProject(validated_data, low_oks) ==
    /\ Serve("projects", "create", TRUE, NoPk, validated_data)
    /\ CreateProject(validated_data @@ ("title" :> "t"), low_oks)
    /\ Observe(Created(validated_data, low_oks))
    /\ Respond(IF Created(validated_data, low_oks).raised THEN 500 ELSE 201,
               nextProjectId)

PutProject(p, validated_data, low_oks) ==
    /\ Serve("projects", "update", TRUE, p, validated_data)
    /\ UpdateProject(p, validated_data, low_oks)
    /\ Observe(Updated(p, validated_data, low_oks))
    /\ Respond(IF Updated(p, validated_data, low_oks).raised THEN 500 ELSE 200, p)

DeleteProject(p) ==
    /\ Serve("projects", "destroy", TRUE, p, <<>>)
    /\ DestroyProject(p)
    /\ Observe(Destroyed(p))
    /\ Respond(IF Destroyed(p).raised THEN 500 ELSE 204, <<>>)

----------------------------------------------------------------------------
(* Payloads: parent writes whose gallery operations carry well-formed and  *)
(* malformed base64 data-URIs, as inserts and as replacements of the asset *)
(* of image 1.  No storage call and no generation fails.                   *)

PayloadOps ==
    {("image" :> DataUri("a")),
     ("image" :> BadBase64),
     ("id" :> 1) @@ ("image" :> DataUri("b")),
     ("id" :> 1) @@ ("image" :> BadBase64) @@ ("caption" :> "x")}

PayloadRequests ==
    {("title" :> "u") @@ ("images" :> ops) @@ ("images_to_remove" :> rm) :
        ops \in SeqsUpTo(PayloadOps, MaxOps), rm \in {<<>>, <<1>>}}

NextPayload ==
    \/ \E vd \in PayloadRequests : PostProject(vd, AllOk(vd["images"]))
    \/ \E p \in DOMAIN projects, vd \in PayloadRequests :
          PutProject(p, vd, AllOk(vd["images"]))
    \/ \E p \in DOMAIN projects : DeleteProject(p)

SpecPayload == Init /\ [][NextPayload]_vars

----------------------------------------------------------------------------
(* Storage failures: the bucket refuses the deletion of some keys while    *)
(* galleries are created, images removed and projects deleted.             *)

\* the bucket starts or stops refusing deletions
Outage(keys) ==
    /\ failing' = keys
    /\ UNCHANGED <<projectVars, pageVars, saveLog, s3Deletes, req, response, procs>>

NextOutage ==
    \/ \E ops \in SeqsUpTo(DeleteInserts, MaxOps) : \E oks \in LowOks(ops) :
          PostProject(("images" :> ops), oks)
    \/ \E p \in DOMAIN projects, rm \in RemovalLists :
          PutProject(p, ("images_to_remove" :> rm), <<>>)
    \/ \E p \in DOMAIN projects : DeleteProject(p)
    \/ \E keys \in SUBSET DOMAIN storage : Outage(keys)

SpecOutage == Init /\ [][NextOutage]_vars

----------------------------------------------------------------------------
(* The variant pipeline inside a reconciliation: requests of up to MaxOps  *)
(* operations that insert images and replace and describe image 1, each    *)
(* generation free to fail.                                                *)

VariantOps ==
    {("image" :> DataUri("a")) @@ ("is_cover" :> TRUE),
     ("image" :> DataUri("a")) @@ ("caption" :> "x") @@ ("order" :> 1),
     ("id" :> 1) @@ ("image" :> DataUri("b")),
     ("id" :> 1) @@ ("caption" :> "x") @@ ("is_cover" :> TRUE)}

VariantRequests == {("images" :> ops) : ops \in SeqsUpTo(VariantOps, MaxOps)}

NextVariant ==
    \/ \E vd \in VariantRequests : \E oks \in LowOks(vd["images"]) :
          PostProject(vd, oks) /\ DOMAIN projects' \subseteq {1}
    \/ \E p \in DOMAIN projects, vd \in VariantRequests : \E oks \in LowOks(vd["images"]) :
          PutProject(p, vd, oks)
    \/ \E p \in DOMAIN projects : DeleteProject(p)

SpecVariant == Init /\ [][NextVariant]_vars

----------------------------------------------------------------------------
(* Reconciliation: updates of one project that remove images and carry     *)
(* operations with ids that exist, are stale, are removed by the same      *)
(* request or are zero, with and without cover claims.                     *)

ReconcileOps ==
    {("image" :> DataUri("a")) @@ ("is_cover" :> TRUE),
     ("id" :> 1) @@ ("image" :> DataUri("b")) @@ ("caption" :> "x"),
     ("id" :> 2) @@ ("is_cover" :> TRUE),
     ("id" :> 1) @@ ("is_cover" :> FALSE),
     ("id" :> 0) @@ ("image" :> DataUri("a"))}

ReconcileRequests ==
    {("images" :> ops) @@ ("images_to_remove" :> rm) :
        ops \in SeqsUpTo(ReconcileOps, MaxOps), rm \in RemovalLists}

NextReconcile ==
    \/ \E vd \in ReconcileRequests :
          PostProject(vd, AllOk(vd["images"])) /\ DOMAIN projects' \subseteq {1}
    \/ \E p \in DOMAIN projects, vd \in ReconcileRequests :
          PutProject(p, vd, AllOk(vd["images"]))
    \/ \E p \in DOMAIN projects : DeleteProject(p)

SpecReconcile == Init /\ [][NextReconcile]_vars

----------------------------------------------------------------------------
(* Concurrent reconciliations: two update requests on project 1 run        *)
(* ProjectSerializer.update one persistence statement at a time, without   *)
(* transaction, each statement atomic and visible at once.  The position   *)
(* and the locals of each request are in procs.                            *)

MaxRaceOps == 2

\* project.images.filter(is_cover=True), as the database holds it now
Covers(p) == {i \in ProjectImages(images, p) : images[i].is_cover}

Procs == {1, 2}

Idle == [pc |-> "idle", data |-> <<>>, qs |-> <<>>, k |-> 0, img |-> NoFile,
         regen |-> FALSE, first |-> NoPk]

\* the tables and the bucket before the first request
EmptyDb == [images |-> <<>>, nextImageId |-> 1, storage |-> <<>>,
            saveLog |-> <<>>, s3Deletes |-> <<>>, failing |-> {}, raised |-> FALSE]

\* the galleries project 1 is created with
RaceGalleries ==
    {CreateGallery(EmptyDb, 1, ("images" :> ops), AllOk(ops)) :
        ops \in SeqsUpTo({("image" :> DataUri("a")) @@ ("is_cover" :> c) : c \in BOOLEAN},
                         MaxImages) \ {<<>>}}

RaceOps ==
    {("id" :> 1) @@ ("is_cover" :> TRUE),
     ("id" :> 2) @@ ("is_cover" :> TRUE),
     ("id" :> 2) @@ ("caption" :> "x"),
     ("image" :> DataUri("a")) @@ ("is_cover" :> TRUE)}

RaceRequests ==
    {("images" :> ops) @@ ("images_to_remove" :> rm) :
        ops \in SeqsUpTo(RaceOps, MaxRaceOps) \ {<<>>}, rm \in {<<>>, <<2>>}}

InitRace ==
    /\ projects = (1 :> NewProject(("title" :> "t")))
    /\ nextProjectId = 2
    /\ \E db \in RaceGalleries :
          /\ images = db.images
          /\ nextImageId = db.nextImageId
          /\ storage = db.storage
    /\ abouts = <<>>
    /\ nextAboutId = 1
    /\ contacts = <<>>
    /\ nextContactId = 1
    /\ saveLog = <<>>
    /\ s3Deletes = <<>>
    /\ req = Request("", "", FALSE, NoPk, <<>>)
    /\ response = [status |-> 0, data |-> <<>>]
    /\ failing = {}
    /\ procs = [i \in Procs |-> Idle]

\* process i moves to the given position with the given locals changed
Goto(i, local) ==
    /\ procs' = [procs EXCEPT ![i] = local]
    /\ UNCHANGED <<projects, nextProjectId, pageVars, saveLog, s3Deletes,
                   req, response, failing>>

ImagesUnchanged == UNCHANGED <<images, nextImageId, storage>>

\* get_object() and instance.save() of the parent
StartUpdate(i, validated_data) ==
    /\ procs[i].pc = "idle"
    /\ Goto(i, [procs[i] EXCEPT !.pc = "remove", !.data = validated_data])
    /\ ImagesUnchanged

\* the query of the loop over instance.images.filter(id__in=ids_to_remove):
\* the instances are loaded when the loop starts
RemoveQuery(i) ==
    LET ids_to_remove == procs[i].data["images_to_remove"]
        qs == {j \in ProjectImages(images, 1) : j \in Range(ids_to_remove)}
        ordered == OrderedImages(images, qs)
    IN  /\ procs[i].pc = "remove"
        /\ ImagesUnchanged
        /\ Goto(i, [procs[i] EXCEPT
                       !.pc = "delete",
                       !.qs = [k \in DOMAIN ordered |->
                                  [pk |-> ordered[k], image |-> images[ordered[k]].image,
                                   image_low |-> images[ordered[k]].image_low]]])

\* img.delete() of the loaded instance: the row, whether or not it is still
\* there, then the files under the names the instance holds
DeleteStatement(i) ==
    LET l == procs[i]
        self == Head(l.qs)
        db1 == [Db EXCEPT !.images = [j \in DOMAIN images \ {self.pk} |-> images[j]]]
        db2 == IF self.image # NoFile THEN StorageDelete(db1, self.image) ELSE db1
        db3 == IF self.image_low # NoFile THEN StorageDelete(db2, self.image_low) ELSE db2
    IN  /\ l.pc = "delete"
        /\ IF l.qs = <<>>
           THEN ImagesUnchanged /\ Goto(i, [l EXCEPT !.pc = "clear"])
           ELSE Commit(db3) /\ Goto(i, [l EXCEPT !.qs = Tail(l.qs)])

\* instance.images.filter(is_cover=True).update(is_cover=False)
ClearStatement(i) ==
    LET images_data == procs[i].data["images"]
        any_incoming_cover ==
            AnyTrue([k \in DOMAIN images_data |-> Get(images_data[k], "is_cover", FALSE)])
    IN  /\ procs[i].pc = "clear"
        /\ IF any_incoming_cover THEN Commit(ClearCovers(Db, 1)) ELSE ImagesUnchanged
        /\ Goto(i, [procs[i] EXCEPT !.pc = "op", !.k = 1])

\* the head of one pass of the loop: instance.images.get(id=img_id), or the
\* decoding of the payload of an insert
OpStatement(i) ==
    LET l == procs[i]
        images_data == l.data["images"]
        img_data == images_data[l.k]
        img_id == Get(img_data, "id", NoPk)
        next == [l EXCEPT !.k = l.k + 1, !.img = NoFile, !.regen = FALSE]
    IN  /\ l.pc = "op"
        /\ ImagesUnchanged
        /\ IF l.k > Len(images_data) THEN Goto(i, [l EXCEPT !.pc = "count", !.k = 0])
           ELSE IF img_id # NoPk
           THEN IF img_id \in ProjectImages(images, 1)
                THEN Goto(i, [l EXCEPT !.pc = "old",
                                       !.img = UpdatedInstance(Db, img_id, img_data)])
                ELSE Goto(i, next)
           ELSE IF "image" \notin DOMAIN img_data THEN Goto(i, next)
           ELSE IF GetImageFileAndHash(img_data["image"])[1] = NoFile THEN Goto(i, next)
           ELSE Goto(i, [l EXCEPT !.pc = "old", !.img = NewInstance(1, img_data)])

\* ProjectImage.save up to the decision to regenerate: the query for the old
\* image name
OldStatement(i) ==
    LET l == procs[i]
        s0 == [l.img EXCEPT !.hash = SaveHash(Db, l.img)]
    IN  /\ l.pc = "old"
        /\ ImagesUnchanged
        /\ Goto(i, [l EXCEPT !.pc = "save", !.img = s0, !.regen = RegenerateLow(Db, s0)])

\* super().save(): the whole row is written from the instance in memory
SaveStatement(i) ==
    LET l == procs[i]
        saved == BaseSave(Db, l.img)
    IN  /\ l.pc = "save"
        /\ WithinBounds(saved[1])
        /\ Commit(saved[1])
        /\ IF l.regen /\ saved[2].image # NoFile
           THEN Goto(i, [l EXCEPT !.pc = "generate", !.img = saved[2]])
           ELSE Goto(i, [l EXCEPT !.pc = "op", !.k = l.k + 1, !.img = NoFile,
                                  !.regen = FALSE])

\* _generate_low_variant and save(update_fields=["image_low"]): reading a
\* primary asset that was deleted meanwhile fails, and so does the save of
\* a row that was deleted meanwhile, after the variant was stored; both are
\* swallowed
GenerateStatement(i, low_ok) ==
    LET l == procs[i]
        key == project_image_low_upload_to(Db)
        db == IF l.img.image \notin DOMAIN storage THEN Db
              ELSE IF l.img.pk \notin DOMAIN images
              THEN IF low_ok
                   THEN StorageSave(Db, key, LowVariant(FileBytes(Db, l.img.image)))
                   ELSE Db
              ELSE GenerateLow(Db, l.img, low_ok)
    IN  /\ l.pc = "generate"
        /\ WithinBounds(db)
        /\ Commit(db)
        /\ Goto(i, [l EXCEPT !.pc = "op", !.k = l.k + 1, !.img = NoFile, !.regen = FALSE])

\* cover_images.count() > 1
CountStatement(i) ==
    /\ procs[i].pc = "count"
    /\ ImagesUnchanged
    /\ Goto(i, [procs[i] EXCEPT !.pc = IF Cardinality(Covers(1)) > 1 THEN "first" ELSE "done"])

\* cover_images.first(); first.pk of None raises
FirstStatement(i) ==
    /\ procs[i].pc = "first"
    /\ ImagesUnchanged
    /\ IF Covers(1) = {}
       THEN Goto(i, [procs[i] EXCEPT !.pc = "raised"])
       ELSE Goto(i, [procs[i] EXCEPT !.pc = "exclude", !.first = FirstImage(images, Covers(1))])

\* ExcludeStatement that updates no row
ExcludeStatementNone(i) ==
    /\ procs[i].pc = "exclude"
    /\ ImagesUnchanged
    /\ Goto(i, [procs[i] EXCEPT !.pc = "done"])

\* cover_images.exclude(pk=first.pk).update(is_cover=False)
ExcludeStatement(i) ==
    /\ procs[i].pc = "exclude"
    /\ images' = [j \in DOMAIN images |->
                     IF j \in Covers(1) \ {procs[i].first}
                     THEN [images[j] EXCEPT !.is_cover = FALSE] ELSE images[j]]
    /\ UNCHANGED <<nextImageId, storage>>
    /\ Goto(i, [procs[i] EXCEPT !.pc = "done"])

NextRace ==
    \/ \E i \in Procs, vd \in RaceRequests : StartUpdate(i, vd)
    \/ \E i \in Procs : RemoveQuery(i)
    \/ \E i \in Procs : DeleteStatement(i)
    \/ \E i \in Procs : ClearStatement(i)
    \/ \E i \in Procs : OpStatement(i)
    \/ \E i \in Procs : OldStatement(i)
    \/ \E i \in Procs : SaveStatement(i)
    \/ \E i \in Procs, low_ok \in BOOLEAN : GenerateStatement(i, low_ok)
    \/ \E i \in Procs : CountStatement(i)
    \/ \E i \in Procs : FirstStatement(i)
    \/ \E i \in Procs : ExcludeStatement(i)

SpecRace == InitRace /\ [][NextRace]_vars

----------------------------------------------------------------------------
(* The single-cover pass on its own: a create request for project 1 has    *)
(* inserted its images, flagged as the request says, and the pass is       *)
(* about to run.                                                           *)

MaxInserted == 3

EnforceInserts ==
    {("image" :> DataUri("a")) @@ ("is_cover" :> c) @@ ("order" :> o) :
        c \in BOOLEAN, o \in {0, 1}}

InitEnforce ==
    /\ projects = (1 :> NewProject(("title" :> "t")))
    /\ nextProjectId = 2
    /\ \E ops \in SeqsUpTo(EnforceInserts, MaxInserted) :
          LET db == CreateImageOps(EmptyDb, 1, ops, AllOk(ops))
          IN  /\ images = db.images
              /\ nextImageId = db.nextImageId
              /\ storage = db.storage
              /\ req = Request("projects", "create", TRUE, NoPk, ("images" :> ops))
    /\ abouts = <<>>
    /\ nextAboutId = 1
    /\ contacts = <<>>
    /\ nextContactId = 1
    /\ saveLog = <<>>
    /\ s3Deletes = <<>>
    /\ response = [status |-> 0, data |-> <<>>]
    /\ failing = {}
    /\ procs = <<>>

\* self._enforce_single_cover(project); return project
EnforcePass ==
    /\ response.status = 0
    /\ Commit(EnforceSingleCover(Db, 1))
    /\ Respond(201, 1)
    /\ UNCHANGED <<projects, nextProjectId, pageVars, saveLog, s3Deletes, req, envVars>>

SpecEnforce == InitEnforce /\ [][EnforcePass]_vars

----------------------------------------------------------------------------
(* Non-mapping i18n values: a JSONField stores any JSON value, so a create *)
(* of an About or Contact row, or the admin form of a project, can leave a *)
(* string or a list where the update paths expect a mapping.               *)

NonMappings == {Str("Hi"), Str(""), List(<<>>), List(<<"x">>)}
StoredValues == NonMappings \cup {EmptyDict, Dict("es" :> "a")}
IncomingMappings == {EmptyDict, Dict("en" :> "b")}

StoredData(second) ==
    Merged(Opt("title_i18n", StoredValues), Opt(second, {Str("Hi")}))

IncomingData(second) ==
    Merged(Opt("title_i18n", IncomingMappings), Opt(second, {Dict("en" :> "a")}))

\* ProjectAdmin: the change form saves the row with the JSON typed in
AdminChangeProject(p, field, value) ==
    /\ p \in DOMAIN projects
    /\ req' = Request("admin", "change", TRUE, p, field :> value)
    /\ projects' = [projects EXCEPT ![p][field] = value]
    /\ Respond(302, p)
    /\ UNCHANGED <<nextProjectId, images, nextImageId, storage, pageVars>>
    /\ UNCHANGED <<saveLog, s3Deletes, envVars>>

PutAbout(a, data) ==
    /\ Serve("about", "update", TRUE, a, data)
    /\ UpdateAbout(a, data)
    /\ Respond(IF AboutRaises(a, data) THEN 500 ELSE 200, a)
    /\ UNCHANGED <<saveLog, s3Deletes>>

PutContact(c, data) ==
    /\ Serve("contact", "update", TRUE, c, data)
    /\ UpdateContact(c, data)
    /\ Respond(IF ContactRaises(c, data) THEN 500 ELSE 200, c)
    /\ UNCHANGED <<saveLog, s3Deletes>>

NextNonMapping ==
    \/ /\ Serve("projects", "create", TRUE, NoPk, "title" :> "t")
       /\ CreateProject("title" :> "t", <<>>)
       /\ Respond(201, nextProjectId)
       /\ FewRows
       /\ UNCHANGED <<saveLog, s3Deletes>>
    \/ \E p \in DOMAIN projects, field \in {"title_i18n", "content_i18n"},
          value \in NonMappings : AdminChangeProject(p, field, value)
    \/ \E p \in DOMAIN projects, data \in IncomingData("content_i18n") :
          /\ Serve("projects", "update", TRUE, p, data)
          /\ UpdateProject(p, data, <<>>)
          /\ Respond(200, p)
          /\ UNCHANGED <<saveLog, s3Deletes>>
    \/ \E p \in DOMAIN projects :
          /\ Serve("projects", "destroy", TRUE, p, <<>>)
          /\ DestroyProject(p)
          /\ Respond(204, <<>>)
          /\ UNCHANGED <<saveLog, s3Deletes>>
    \/ \E data \in StoredData("content_i18n") :
          /\ Serve("about", "create", TRUE, NoPk, data)
          /\ CreateAbout(data)
          /\ Respond(201, nextAboutId)
          /\ FewRows
          /\ UNCHANGED <<saveLog, s3Deletes>>
    \/ \E a \in DOMAIN abouts, data \in IncomingData("content_i18n") : PutAbout(a, data)
    \/ \E a \in DOMAIN abouts :
          /\ Serve("about", "destroy", TRUE, a, <<>>)
          /\ DestroyAbout(a)
          /\ Respond(204, <<>>)
          /\ UNCHANGED <<saveLog, s3Deletes>>
    \/ \E data \in StoredData("description_i18n") :
          /\ Serve("contact", "create", TRUE, NoPk, data)
          /\ CreateContact(data)
          /\ Respond(201, nextContactId)
          /\ FewRows
          /\ UNCHANGED <<saveLog, s3Deletes>>
    \/ \E c \in DOMAIN contacts, data \in IncomingData("description_i18n") :
          PutContact(c, data)
    \/ \E c \in DOMAIN contacts :
          /\ Serve("contact", "destroy", TRUE, c, <<>>)
          /\ DestroyContact(c)
          /\ Respond(204, <<>>)
          /\ UNCHANGED <<saveLog, s3Deletes>>

SpecNonMapping == Init /\ [][NextNonMapping]_vars

----------------------------------------------------------------------------
(* The size of the low-resolution variant: _generate_low_variant applied   *)
(* to an original of a given width and height.                             *)

MaxHeight == 8

target_width == 240

RECURSIVE OddPart(_)
OddPart(n) == IF n % 2 = 0 THEN OddPart(n \div 2) ELSE n

\* target_width / float(width) is a double: the quotient itself when it is
\* a binary fraction, the nearest double otherwise
ExactRatio(width) == OddPart(target_width) % OddPart(width) = 0

\* int(im.height * ratio): the product truncated.  A quotient that is not
\* a whole number is further from the next whole number than the rounding
\* error of the two float operations, so its truncation is the integer
\* quotient.  When height * target_width / width is a whole number k and
\* the ratio was rounded, the product is k or the double just below it,
\* and truncation gives k or k - 1.
Truncated(width, height) ==
    LET q == (height * target_width) \div width
        r == (height * target_width) % width
    IN  IF r # 0 \/ ExactRatio(width) THEN {q} ELSE {q - 1, q}

Max(a, b) == IF a >= b THEN a ELSE b

\* the sizes im can have before the blur
NewSizes(width, height) ==
    IF width > target_width
    THEN {<<target_width, Max(1, t)>> : t \in Truncated(width, height)}
    ELSE {<<width, height>>}

Widths == {1, 239, 240, 241, 298, 320, 480, 481, 960}
Heights == (1..MaxHeight) \cup {149, 298}

InitScale ==
    /\ projects = <<>>
    /\ nextProjectId = 1
    /\ images = <<>>
    /\ nextImageId = 1
    /\ storage = <<>>
    /\ abouts = <<>>
    /\ nextAboutId = 1
    /\ contacts = <<>>
    /\ nextContactId = 1
    /\ saveLog = <<>>
    /\ s3Deletes = <<>>
    /\ \E width \in Widths, height \in Heights :
          req = Request("image", "generate", TRUE, NoPk, <<width, height>>)
    /\ response = [status |-> 0, data |-> <<>>]
    /\ failing = {}
    /\ procs = <<>>

\* _generate_low_variant up to the size of the image it saves
GenerateLowVariant ==
    /\ response.status = 0
    /\ \E new_size \in NewSizes(req.data[1], req.data[2]) : Respond(200, new_size)
    /\ UNCHANGED <<projectVars, pageVars, saveLog, s3Deletes, req, envVars>>

SpecScale == InitScale /\ [][GenerateLowVariant]_vars

----------------------------------------------------------------------------
(* Two parents: reconciliations of one project whose removal list and      *)
(* operations name the images of the other.                                *)

MaxForeignOps == 1

IsolationInserts ==
    {("image" :> DataUri("a")),
     ("image" :> DataUri("a")) @@ ("is_cover" :> TRUE)}

IsolationOps ==
    {("id" :> i) @@ ("is_cover" :> TRUE) : i \in ImageIds}
    \cup {("id" :> i) @@ ("caption" :> "x") @@ ("is_cover" :> FALSE) : i \in ImageIds}
    \cup {("id" :> i) @@ ("image" :> DataUri("b")) : i \in ImageIds}
    \cup {("image" :> DataUri("b")) @@ ("is_cover" :> TRUE)}

IsolationRequests ==
    {("images" :> ops) @@ ("images_to_remove" :> rm) :
        ops \in SeqsUpTo(IsolationOps, MaxForeignOps), rm \in RemovalLists}

\* two projects as two creates left them, with at most one image each
InitIsolation ==
    /\ projects = (1 :> NewProject(("title" :> "t"))) @@ (2 :> NewProject(("title" :> "t")))
    /\ nextProjectId = 3
    /\ \E ops1 \in SeqsUpTo(IsolationInserts, 1), ops2 \in SeqsUpTo(IsolationInserts, 1) :
          LET db1 == CreateGallery(EmptyDb, 1, ("images" :> ops1), AllOk(ops1))
              db2 == CreateGallery(db1, 2, ("images" :> ops2), AllOk(ops2))
          IN  /\ images = db2.images
              /\ nextImageId = db2.nextImageId
              /\ storage = db2.storage
    /\ abouts = <<>>
    /\ nextAboutId = 1
    /\ contacts = <<>>
    /\ nextContactId = 1
    /\ saveLog = <<>>
    /\ s3Deletes = <<>>
    /\ req = Request("", "", FALSE, NoPk, <<>>)
    /\ response = [status |-> 0, data |-> <<>>]
    /\ failing = {}
    /\ procs = <<>>

NextIsolation ==
    \E p \in DOMAIN projects, vd \in IsolationRequests :
        PutProject(p, vd, AllOk(vd["images"]))

SpecIsolation == InitIsolation /\ [][NextIsolation]_vars

----------------------------------------------------------------------------
\* C1: at the end of every project create and update request, every
\* project has at most one gallery image flagged as cover.
AtMostOneCover == \A p \in DOMAIN projects : Cardinality(Covers(p)) <= 1

\* a project whose gallery holds two images, one of them the cover
TwoImagesOneCover ==
    \E p \in DOMAIN projects :
        Cardinality(ProjectImages(images, p)) = 2 /\ Cardinality(Covers(p)) = 1

----------------------------------------------------------------------------
\* the step just taken served a reorder request
Reordered == req'.view = "projects" /\ req'.action = "reorder"

SameOrders == \A p \in DOMAIN projects : projects'[p].order = projects[p].order

\* C2: the reorder endpoint rejects every order list whose set of ids is not
\* the set of ids of all existing projects, and a rejected request leaves
\* the order of every project as it was.
ReorderRejectsMismatch ==
    [][Reordered =>
          /\ (~IsList(req'.data) \/ Range(req'.data[2]) # DOMAIN projects)
                => response'.status = 400
          /\ response'.status = 400 => SameOrders]_vars

----------------------------------------------------------------------------
\* GET /projects/: the ids by (order, id)
Listing == OrderedImages(projects, DOMAIN projects)

\* C3: after an accepted reorder, the project at position i of the
\* submitted list has order i, counted from zero, and the listing of the
\* projects by (order, id) is the submitted list.
ReorderAssignsPositions ==
    [][(Reordered /\ response'.status = 200) =>
          LET order_list == req'.data[2]
          IN  /\ \A i \in DOMAIN order_list : projects'[order_list[i]].order = i - 1
              /\ Listing' = order_list]_vars

----------------------------------------------------------------------------
\* C4: without credentials every state-changing route is refused and
\* leaves the state as it was, while list and retrieve of projects, about
\* and contact are served.
AnonymousWritesRefused ==
    [][~req'.authenticated =>
          IF req'.action \in {"list", "retrieve"}
          THEN response'.status \in {200, 404}
          ELSE /\ response'.status = 401
               /\ UNCHANGED <<projectVars, pageVars>>]_vars

\* a delete of an existing project was asked for without credentials and
\* was refused
AnonymousDestroyRefused ==
    /\ req.view = "projects" /\ req.action = "destroy" /\ ~req.authenticated
    /\ req.id \in DOMAIN projects
    /\ response.status = 401

----------------------------------------------------------------------------
\* the saves of the step just taken that updated an existing row
UpdateSaves == {k \in DOMAIN saveLog' : saveLog'[k].pk \in DOMAIN images}

\* C5: an update of an existing image that carries no new primary asset,
\* on a row whose image_low is present, leaves hash, image and image_low as
\* they were and attempts no variant generation.
MetadataUpdateKeepsAssets ==
    [][\A k \in UpdateSaves :
          LET e == saveLog'[k] IN
          (~e.upload /\ images[e.pk].image_low # NoFile) =>
              /\ ~e.generate
              /\ images'[e.pk].hash = images[e.pk].hash
              /\ images'[e.pk].image = images[e.pk].image
              /\ images'[e.pk].image_low = images[e.pk].image_low]_vars

\* the last request changed the caption of an image that keeps its variant
CaptionChangedVariantKept ==
    /\ Len(saveLog) = 1
    /\ ~saveLog[1].created /\ ~saveLog[1].upload /\ ~saveLog[1].generate
    /\ images[saveLog[1].pk].caption = "x"
    /\ images[saveLog[1].pk].image_low # NoFile

----------------------------------------------------------------------------
\* C6, as claimed: a hash that is set keeps its value under every update.
HashNeverChanges ==
    [][\A i \in DOMAIN images \cap DOMAIN images' :
          images[i].hash # NoHash => images'[i].hash = images[i].hash]_vars

\* C6, amended: an update that supplies a decodable new primary asset sets
\* the hash to the digest of the new bytes; every other update, also one
\* that regenerates image_low, keeps the hash.
HashFollowsPrimaryAsset ==
    [][\A k \in UpdateSaves :
          LET e == saveLog'[k] IN
          images'[e.pk].hash = IF e.upload
                               THEN Sha256(storage'[images'[e.pk].image])
                               ELSE images[e.pk].hash]_vars

\* the last request replaced the primary asset of an image: its hash is the
\* digest of "b" while the replaced asset "a" is still in storage
AssetReplaced ==
    /\ Len(saveLog) = 1
    /\ ~saveLog[1].created /\ saveLog[1].upload
    /\ images[saveLog[1].pk].hash = Sha256("b")
    /\ \E key \in DOMAIN storage : storage[key] = "a"

----------------------------------------------------------------------------
\* C7: a save attempts the generation of the low variant exactly when the
\* row is new, or its primary image reference changes, or the persisted
\* image_low is absent.
GenerationExactlyWhenNeeded ==
    [][\A k \in DOMAIN saveLog' :
          LET e == saveLog'[k] IN
          e.generate <=> \/ e.pk \notin DOMAIN images
                         \/ images'[e.pk].image # images[e.pk].image
                         \/ images[e.pk].image_low = NoFile]_vars

\* the last request saved an existing image without a new asset and
\* attempted the generation, its variant being absent
HealingAttempted ==
    /\ Len(saveLog) = 1
    /\ ~saveLog[1].created /\ ~saveLog[1].upload /\ saveLog[1].generate

----------------------------------------------------------------------------
\* C8: deleting a project removes all its image rows and issues exactly one
\* storage delete for each primary asset and for each low variant present.
Count(seq, x) == Cardinality({k \in DOMAIN seq : seq[k] = x})

ChildFiles(p) ==
    {images[i].image : i \in ProjectImages(images, p)}
    \cup ({images[i].image_low : i \in ProjectImages(images, p)} \ {NoFile})

DestroyRemovesGallery ==
    [][\A p \in DOMAIN projects \ DOMAIN projects' :
          /\ ProjectImages(images', p) = {}
          /\ DOMAIN images' = DOMAIN images \ ProjectImages(images, p)
          /\ Range(s3Deletes') = ChildFiles(p)
          /\ \A key \in ChildFiles(p) :
                Count(s3Deletes', key) = 1 /\ key \notin DOMAIN storage'
          /\ Len(s3Deletes') = Cardinality(ChildFiles(p))]_vars

\* the last project was deleted with two images, one without a variant:
\* three delete calls
DestroyedTwoImages ==
    /\ projects = <<>>
    /\ nextProjectId > 1
    /\ Len(s3Deletes) = 3

----------------------------------------------------------------------------
\* the table a view serves
Table(view, ps, as, cs) ==
    IF view = "projects" THEN ps ELSE IF view = "about" THEN as ELSE cs

I18nFields(view) ==
    IF view = "projects" THEN {"title_i18n", "content_i18n"}
    ELSE IF view = "about" THEN {"title_i18n", "content_i18n"}
    ELSE {"title_i18n", "description_i18n"}

\* new is old with every key of incoming set to the incoming value
Overwritten(old, incoming, new) ==
    /\ DOMAIN Items(new) = DOMAIN Items(old) \cup DOMAIN Items(incoming)
    /\ \A k \in DOMAIN Items(new) :
          Items(new)[k] = IF k \in DOMAIN Items(incoming)
                          THEN Items(incoming)[k] ELSE Items(old)[k]

\* C9: an update of a project, about or contact that carries a partial
\* i18n mapping leaves the persisted mapping with every incoming key set to
\* the incoming value and every other key as it was: no key is ever
\* removed, and the empty mapping changes nothing.
I18nMerged ==
    [][(req'.action = "update" /\ response'.status = 200) =>
          LET old == Table(req'.view, projects, abouts, contacts)[req'.id]
              new == Table(req'.view, projects', abouts', contacts')[req'.id]
          IN  \A field \in I18nFields(req'.view) :
                 IF field \in DOMAIN req'.data
                 THEN Overwritten(old[field], req'.data[field], new[field])
                 ELSE new[field] = old[field]]_vars

\* the update carried only "en", and the persisted mapping holds it next to
\* the "es" entry that was there before
MergedKeepsOtherKey(view, table) ==
    /\ req.view = view /\ req.action = "update" /\ response.status = 200
    /\ req.data = ("title_i18n" :> Dict("en" :> "b"))
    /\ table[req.id].title_i18n = Dict(("en" :> "b") @@ ("es" :> "a"))

EveryResourceMerged ==
    \/ MergedKeepsOtherKey("projects", projects)
    \/ MergedKeepsOtherKey("about", abouts)
    \/ MergedKeepsOtherKey("contact", contacts)

----------------------------------------------------------------------------
\* the project and the language of the retrieve just served
Retrieved == req.view = "projects" /\ req.action = "retrieve" /\ response.status = 200

Scalar(obj) == [text |-> obj.title, lang |-> obj.content_source_lang]

\* C10, as claimed: an entry of title_i18n for the requested language wins,
\* whatever its value.
TitleResolvedAnyEntry ==
    Retrieved =>
        LET obj   == projects[req.id]
            lang  == ResolveLang(req.data)
            items == Items(obj.title_i18n)
            r     == response.data.title_resolved
        IN  IF lang \in DOMAIN items THEN r = [text |-> items[lang], lang |-> lang]
            ELSE IF lang = obj.content_source_lang THEN r = Scalar(obj)
            ELSE IF obj.title # "" THEN r = Scalar(obj)
            ELSE IF DOMAIN items # {}
            THEN \E k \in DOMAIN items : r = [text |-> items[k], lang |-> k]
            ELSE r = [text |-> NoText, lang |-> NoLang]

\* C10, amended: a non-empty entry of title_i18n for the requested language
\* wins; else the scalar title when the requested language is the source
\* language; else the scalar title when it is non-empty; else one of the
\* entries of title_i18n; else nothing.
TitleResolvedPrecedence ==
    Retrieved =>
        LET obj   == projects[req.id]
            lang  == ResolveLang(req.data)
            items == Items(obj.title_i18n)
            r     == response.data.title_resolved
        IN  IF lang \in DOMAIN items /\ items[lang] # ""
            THEN r = [text |-> items[lang], lang |-> lang]
            ELSE IF lang = obj.content_source_lang THEN r = Scalar(obj)
            ELSE IF obj.title # "" THEN r = Scalar(obj)
            ELSE IF DOMAIN items # {}
            THEN \E k \in DOMAIN items : r = [text |-> items[k], lang |-> k]
            ELSE r = [text |-> NoText, lang |-> NoLang]

\* "en" was asked for, the entry for "en" is empty, and the scalar title
\* came back under the source language
EmptyEntrySkipped ==
    /\ Retrieved
    /\ req.data = "en"
    /\ projects[req.id].title_i18n = Dict("en" :> "")
    /\ response.data.title_resolved = [text |-> "Hola", lang |-> "es"]

----------------------------------------------------------------------------
\* C11: content_resolved follows the precedence of title_resolved: the
\* override of content_i18n for the requested language when it has markdown;
\* else the scalar content when the requested language is the source
\* language; else the scalar content when it is non-empty; else an override
\* that has markdown, tagged with its language; else md and lang absent.  An
\* empty scalar content never masks an override, and an override with
\* markdown is returned whenever the scalar content is empty or absent.
ContentResolvedPrecedence ==
    Retrieved =>
        LET obj    == projects[req.id]
            lang   == ResolveLang(req.data)
            items  == Items(obj.content_i18n)
            scalar == [md |-> ContentText(obj.content), lang |-> obj.content_source_lang]
            r      == response.data.content_resolved
        IN  IF lang \in DOMAIN items /\ Md(items[lang]) # ""
            THEN r = [md |-> Md(items[lang]), lang |-> lang]
            ELSE IF lang = obj.content_source_lang /\ obj.content # None THEN r = scalar
            ELSE IF obj.content \notin {None, Str("")} THEN r = scalar
            ELSE IF \E k \in DOMAIN items : Md(items[k]) # ""
            THEN \E k \in DOMAIN items :
                    Md(items[k]) # "" /\ r = [md |-> Md(items[k]), lang |-> k]
            ELSE r = [md |-> NoText, lang |-> NoLang]

----------------------------------------------------------------------------
\* the gallery operations of the request just served
RequestOps == Get(req'.data, "images", <<>>)

Malformed(op) == "image" \in DOMAIN op /\ op["image"][1] = "data:image" /\ ~op["image"][2]

\* C12: a create or update of a parent in which some gallery operation
\* carries a malformed base64 data-URI is rejected with a client error and
\* changes no row and no stored object.
MalformedPayloadRejected ==
    [][(/\ req'.view = "projects" /\ req'.action \in {"create", "update"}
        /\ \E k \in DOMAIN RequestOps : Malformed(RequestOps[k]))
          => /\ response'.status \in 400..499
             /\ UNCHANGED <<projectVars, pageVars>>]_vars

----------------------------------------------------------------------------
\* the images the request just served asked to delete
DeleteTargets ==
    IF req'.action = "destroy" THEN ProjectImages(images, req'.id)
    ELSE IF req'.action = "update"
    THEN ProjectImages(images, req'.id)
            \cap Range(Get(req'.data, "images_to_remove", <<>>))
    ELSE {}

ImageFiles(i) == {images[i].image, images[i].image_low} \ {NoFile}

\* C13: a storage delete that fails while gallery images are deleted, by a
\* removal list or by the deletion of the parent, is swallowed: the request
\* succeeds, every targeted row is deleted, every other asset of the
\* targeted images is deleted, and a deleted parent is gone.
DeleteFailureSwallowed ==
    [][(\E i \in DeleteTargets : ImageFiles(i) \cap failing # {}) =>
          /\ response'.status \in {200, 204}
          /\ DeleteTargets \cap DOMAIN images' = {}
          /\ \A i \in DeleteTargets :
                (ImageFiles(i) \ failing) \cap DOMAIN storage' = {}
          /\ req'.action = "destroy" => req'.id \notin DOMAIN projects']_vars

----------------------------------------------------------------------------
\* the parent of the create or update just served, and its images that the
\* removal list of the request leaves
Parent == IF req'.action = "create" THEN nextProjectId ELSE req'.id

Remaining ==
    ProjectImages(images, Parent) \ Range(Get(req'.data, "images_to_remove", <<>>))

\* the id the code reads from an operation, <<>> for none: a create does
\* not read the ids, and an update takes a zero id for none
CodeIds ==
    [j \in DOMAIN RequestOps |->
        IF req'.action = "create" \/ Get(RequestOps[j], "id", NoPk) = NoPk
        THEN <<>> ELSE <<RequestOps[j]["id"]>>]

\* the image each operation acts on, NoPk for an operation that is skipped:
\* an id names the image when it is among the existing ones, and an
\* operation without id that carries a decodable asset inserts the next one
RECURSIVE OpTargets(_, _, _, _)
OpTargets(ops, ids, existing, next) ==
    IF ops = <<>> THEN <<>>
    ELSE LET op == Head(ops)
         IN  IF Head(ids) # <<>>
             THEN <<IF Head(ids)[1] \in existing THEN Head(ids)[1] ELSE NoPk>>
                      \o OpTargets(Tail(ops), Tail(ids), existing, next)
             ELSE IF "image" \in DOMAIN op /\ op["image"][1] = "data:image" /\ op["image"][2]
             THEN <<next>> \o OpTargets(Tail(ops), Tail(ids), existing \cup {next}, next + 1)
             ELSE <<NoPk>> \o OpTargets(Tail(ops), Tail(ids), existing, next)

Targets == OpTargets(RequestOps, CodeIds, Remaining, nextImageId)

Applied(targets) == {j \in DOMAIN targets : targets[j] # NoPk}

\* the value the operations of the request leave in a field of an image
Expected(targets, pk, field, initial) ==
    LET J == {j \in Applied(targets) : targets[j] = pk /\ field \in DOMAIN RequestOps[j]}
    IN  IF J = {} THEN initial
        ELSE RequestOps[CHOOSE j \in J : \A i \in J : i <= j][field]

Before(pk, field, default) ==
    IF pk \in DOMAIN images THEN images[pk][field] ELSE default

\* C14: a variant generation that fails during a save is swallowed: the
\* request succeeds, every operation of the request is applied, every row
\* it saved is persisted with its primary image in storage, the hash of
\* that image, and the caption, order and cover claim of the request, and
\* the single-cover pass has run.
GenerationFailureSwallowed ==
    [][(\E k \in DOMAIN saveLog' : saveLog'[k].failed) =>
          /\ response'.status \in {200, 201}
          /\ Len(saveLog') = Cardinality(Applied(Targets))
          /\ \A j \in Applied(Targets) :
                LET pk == Targets[j] IN
                /\ pk \in DOMAIN images'
                /\ images'[pk].image \in DOMAIN storage'
                /\ images'[pk].hash = Sha256(storage'[images'[pk].image])
                /\ images'[pk].caption =
                      Expected(Targets, pk, "caption", Before(pk, "caption", ""))
                /\ images'[pk].order =
                      Expected(Targets, pk, "order", Before(pk, "order", 0))
                /\ images'[pk].is_cover =>
                      Expected(Targets, pk, "is_cover", Before(pk, "is_cover", FALSE))
          /\ Cardinality({i \in ProjectImages(images', Parent) : images'[i].is_cover}) <= 1
      ]_vars

\* the last request saved two images; the generation failed for the first,
\* which has no variant, and succeeded for the second
FailedThenContinued ==
    /\ response.status \in {200, 201}
    /\ Len(saveLog) = 2
    /\ saveLog[1].failed /\ ~saveLog[2].failed
    /\ saveLog[1].pk # saveLog[2].pk
    /\ images[saveLog[1].pk].image_low = NoFile
    /\ images[saveLog[2].pk].image_low # NoFile

----------------------------------------------------------------------------
\* image_low of the row is absent, or is no variant of its primary asset
Unhealed(rows, bucket, pk) ==
    \/ rows[pk].image_low = NoFile
    \/ bucket[rows[pk].image_low] # LowVariant(bucket[rows[pk].image])

\* C15: whenever the variant generation failed for an image, on its
\* creation or on a later replacement of its primary asset, the next update
\* applied to that image attempts the generation again, and when that
\* generation succeeds image_low is a variant of the current primary asset.
SelfHealing ==
    [][\A k \in UpdateSaves :
          LET e == saveLog'[k] IN
          Unhealed(images, storage, e.pk) =>
              /\ e.generate
              /\ ~e.failed => ~Unhealed(images', storage', e.pk)]_vars

----------------------------------------------------------------------------
\* the update just served removed and reconciled
Reconciling == req'.view = "projects" /\ req'.action = "update" /\ response'.status = 200

\* what a reconciliation leaves when its operations act on the given
\* targets: the removed images are gone, the rows are the remaining ones
\* and the targets, the saves are those of the operations that have a
\* target, in order, and every target carries its operation's caption
ReconciledAs(targets) ==
    LET removed == ProjectImages(images, Parent) \ Remaining
    IN  /\ removed \cap DOMAIN images' = {}
        /\ DOMAIN images' = (DOMAIN images \ removed) \cup {targets[j] : j \in Applied(targets)}
        /\ [k \in DOMAIN saveLog' |-> saveLog'[k].pk]
              = SelectSeq(targets, LAMBDA t : t # NoPk)
        /\ \A j \in Applied(targets) :
              images'[targets[j]].caption
                 = Expected(targets, targets[j], "caption", Before(targets[j], "caption", ""))

\* the id of an operation as the claim reads it: every id given is an id
ClaimedIds ==
    [j \in DOMAIN RequestOps |->
        IF "id" \in DOMAIN RequestOps[j] THEN <<RequestOps[j]["id"]>> ELSE <<>>]

\* C16: removals come first, and every operation whose id is not the id of
\* an existing child at the moment it is applied is skipped: it creates no
\* row even with an asset payload, a removed image is not resurrected, and
\* all other operations are applied.
StaleIdsSkipped ==
    [][Reconciling =>
          ReconciledAs(OpTargets(RequestOps, ClaimedIds, Remaining, nextImageId))]_vars

\* the same holds when the operations with the id zero are read as the code
\* reads them, as operations without id
StaleNonZeroIdsSkipped ==
    [][Reconciling => ReconciledAs(Targets)]_vars

\* image 1 was removed by the request whose first operation named it with
\* an asset; only the insert that followed was saved
RemovedThenNamed ==
    /\ req.action = "update" /\ response.status = 200
    /\ req.data["images_to_remove"] = <<1>>
    /\ Len(req.data["images"]) = 2
    /\ req.data["images"][1] = ("id" :> 1) @@ ("image" :> DataUri("b")) @@ ("caption" :> "x")
    /\ s3Deletes # <<>>
    /\ 1 \notin DOMAIN images
    /\ Len(saveLog) = 1 /\ saveLog[1].created

----------------------------------------------------------------------------
\* the operations of the request that ask for the cover
CoverClaims == {j \in DOMAIN RequestOps : Get(RequestOps[j], "is_cover", FALSE)}

\* C17: when the operations of a reconciliation act on pairwise distinct
\* images and exactly one of them asks for is_cover = true and is applied,
\* the image of that operation is the only cover of the parent afterwards.
SingleClaimWins ==
    [][(/\ Reconciling
        /\ Cardinality(CoverClaims) = 1
        /\ CoverClaims \subseteq Applied(Targets)
        /\ \A i, j \in Applied(Targets) : i # j => Targets[i] # Targets[j])
          => \A j \in CoverClaims :
                {i \in ProjectImages(images', Parent) : images'[i].is_cover}
                   = {Targets[j]}]_vars

\* the last request asked the cover for image 2 alone; images 1 and 2
\* exist, 1 was inserted as cover, and 2 is the only cover
CoverMoved ==
    /\ req.action = "update" /\ response.status = 200
    /\ req.data["images"] = <<("id" :> 2) @@ ("is_cover" :> TRUE)>>
    /\ req.data["images_to_remove"] = <<>>
    /\ DOMAIN images = {1, 2}
    /\ images[1].order = 0 /\ images[2].order = 0
    /\ Covers(1) = {2}

----------------------------------------------------------------------------
\* C18: on a parent with two or more images flagged as cover the
\* single-cover pass keeps the flag of the first of them by ascending
\* (order, id) and clears the others, and with no or one flagged image it
\* changes nothing.
EnforceKeepsFirst ==
    [][LET flagged == Covers(1) IN
       IF Cardinality(flagged) >= 2
       THEN \E f \in flagged :
               /\ \A j \in flagged \ {f} :
                     \/ images[f].order < images[j].order
                     \/ images[f].order = images[j].order /\ f < j
               /\ images' = [j \in DOMAIN images |->
                                IF j \in flagged \ {f}
                                THEN [images[j] EXCEPT !.is_cover = FALSE]
                                ELSE images[j]]
       ELSE images' = images]_vars

\* the request inserted a cover of order 1 and then a cover of order 0; the
\* pass has run and the second image alone is the cover
LaterImageKept ==
    /\ response.status = 201
    /\ Len(req.data["images"]) = 2
    /\ \A k \in {1, 2} : req.data["images"][k]["is_cover"]
    /\ req.data["images"][1]["order"] = 1
    /\ req.data["images"][2]["order"] = 0
    /\ Covers(1) = {2}
    /\ ~images[1].is_cover

----------------------------------------------------------------------------
\* C19: when two reconciliations of the same parent, interleaved statement
\* by statement, have both completed their single-cover pass, at most one
\* image of the parent is flagged as cover.
OneCoverAfterRace ==
    (\A i \in Procs : procs[i].pc = "done") => Cardinality(Covers(1)) <= 1

\* one request asked the cover for image 1 and the other for image 2, both
\* found two covers in their pass, both kept image 1, and image 1 alone is
\* the cover
RaceResolved ==
    /\ \A i \in Procs : procs[i].pc = "done" /\ procs[i].first = 1
    /\ procs[1].data = ("images" :> <<("id" :> 1) @@ ("is_cover" :> TRUE)>>)
                          @@ ("images_to_remove" :> <<>>)
    /\ procs[2].data = ("images" :> <<("id" :> 2) @@ ("is_cover" :> TRUE)>>)
                          @@ ("images_to_remove" :> <<>>)
    /\ Covers(1) = {1}

----------------------------------------------------------------------------
\* the keys the image rows reference
Referenced ==
    ({images[i].image : i \in DOMAIN images}
        \cup {images[i].image_low : i \in DOMAIN images}) \ {NoFile}

\* C20: after any sequence of creates, reconciliations and deletions in
\* which no storage call and no generation fails, every gallery asset in
\* storage is referenced by image or image_low of a persisted row, and every
\* reference of a row is a key present in storage.
StorageMatchesRows ==
    /\ DOMAIN storage \subseteq Referenced
    /\ Referenced \subseteq DOMAIN storage

----------------------------------------------------------------------------
\* C21: an update of a project, about or contact that carries a mapping for
\* an i18n field whose persisted value is not a mapping succeeds, and the
\* persisted value afterwards is exactly the incoming mapping.
NonMappingTreatedAsEmpty ==
    [][(req'.action = "update" /\ req'.id \in DOMAIN Table(req'.view, projects, abouts, contacts)) =>
          LET old == Table(req'.view, projects, abouts, contacts)[req'.id]
              new == Table(req'.view, projects', abouts', contacts')[req'.id]
          IN  \A field \in I18nFields(req'.view) \cap DOMAIN req'.data :
                 ~IsDict(old[field]) =>
                    /\ response'.status = 200
                    /\ new[field] = req'.data[field]]_vars

\* the same when the resource is a project, or when every persisted value
\* the update names is a mapping or a value Python takes as false (the empty
\* string, the empty list)
FalsyNonMappingTreatedAsEmpty ==
    [][(req'.action = "update" /\ req'.id \in DOMAIN Table(req'.view, projects, abouts, contacts)) =>
          LET old == Table(req'.view, projects, abouts, contacts)[req'.id]
              new == Table(req'.view, projects', abouts', contacts')[req'.id]
              named == I18nFields(req'.view) \cap DOMAIN req'.data
          IN  (req'.view = "projects" \/ \A f \in named : IsDict(OrEmpty(old[f]))) =>
                 \A field \in named :
                    ~IsDict(old[field]) =>
                       /\ response'.status = 200
                       /\ new[field] = req'.data[field]]_vars

----------------------------------------------------------------------------
\* round(n / d) as Python computes it: halves go to the even neighbour
Round(n, d) ==
    LET q == n \div d
        r == n % d
    IN  IF 2 * r < d THEN q
        ELSE IF 2 * r > d THEN q + 1
        ELSE IF q % 2 = 0 THEN q ELSE q + 1

\* C22: the variant of an original of width w and height h has width 240
\* and height max(1, round(h * 240 / w)) when w > 240, and the original
\* width and height when w <= 240; its width is min(w, 240).
VariantSizeRounded ==
    response.status = 200 =>
        LET w == req.data[1]
            h == req.data[2]
        IN  /\ response.data =
                  IF w > 240 THEN <<240, Max(1, Round(h * 240, w))>> ELSE <<w, h>>
            /\ response.data[1] = IF w < 240 THEN w ELSE 240

\* what does hold: the width is min(w, 240), narrow originals keep their
\* size, and the height of a downscaled variant is max(1, floor(h * 240 / w))
\* or, when h * 240 / w is a whole number, possibly one less
VariantSizeTruncated ==
    response.status = 200 =>
        LET w == req.data[1]
            h == req.data[2]
            q == (h * 240) \div w
        IN  /\ response.data[1] = IF w < 240 THEN w ELSE 240
            /\ w <= 240 => response.data = <<w, h>>
            /\ w > 240 => response.data[2] \in {Max(1, q), Max(1, q - 1)}
            /\ (w > 240 /\ (h * 240) % w # 0) => response.data[2] = Max(1, q)

----------------------------------------------------------------------------
\* the images of the parents other than the one the request addresses
Foreign(rows, p) == {i \in DOMAIN rows : rows[i].project # p}

\* C23: an update of project P leaves every gallery row of every other
\* project, and the stored objects those rows reference, exactly as they
\* were, whatever ids its removal list and its operations name.
OtherParentsUntouched ==
    [][(req'.view = "projects" /\ req'.action = "update") =>
          \A i \in Foreign(images, req'.id) :
             /\ i \in DOMAIN images'
             /\ images'[i] = images[i]
             /\ \A key \in {images[i].image, images[i].image_low} \ {NoFile} :
                   /\ key \in DOMAIN storage'
                   /\ storage'[key] = storage[key]]_vars

\* an update named an image of another project both in its removal list
\* and in an operation claiming the cover, next to an image of its own in
\* the removal list; it was answered 200, its own image is gone and the
\* other project's image is the one that is left
ForeignIdsNamed ==
    /\ req.view = "projects" /\ req.action = "update" /\ response.status = 200
    /\ Len(req.data["images_to_remove"]) = 2
    /\ \E i \in Foreign(images, req.id) :
          /\ DOMAIN images = {i}
          /\ i \in Range(req.data["images_to_remove"])
          /\ \E k \in DOMAIN req.data["images"] :
                /\ Get(req.data["images"][k], "id", NoPk) = i
                /\ Get(req.data["images"][k], "is_cover", FALSE)
          /\ ~images[i].is_cover
    /\ nextImageId = 3

====
